---- MODULE Spec2Model ----
(***************************************************************************)
(* Sorted word-stream pipeline of smessmer/wordle: the case-fold ordering, *)
(* the invariant-checked WordStream, its sources, transforms, the          *)
(* type-erased BoxedWordStream and the sinks.                              *)
(*                                                                         *)
(* A char is its Unicode scalar value.  A text is a sequence of chars.     *)
(* A stream item is a record [kind, w, e]: Ok(w), Err(e), or the end of    *)
(* the iteration (None).  A panic of next() is the item kind "Panic".      *)
(*                                                                         *)
(* Around it: the word list processing binary, the CSV source, and the     *)
(* guessing game that plays on the processed lists (Game, GuessFeedback,   *)
(* and the terminal front end: KeyboardState, InputState and the App).     *)
(***************************************************************************)
EXTENDS Integers, Sequences, FiniteSets, Bags, TLC

VARIABLES
    a, b,          \* the two texts handed to case_fold_cmp; a: the text asked of contains
    ab, ba,        \* case_fold_cmp(a, b) and case_fold_cmp(b, a), "none" before the call;
                   \* ab: the answer of contains
    input,         \* the data behind the (left) source: lines of a reader, or items
    input2,        \* the data behind the right source of a merge
    op,            \* how the stream is built / drained in this run
    stages,        \* the transforms chained onto the source, first to last
    stream,        \* the iterator being drained (statically typed API)
    out,           \* the items it has yielded so far
    status,        \* "running", "exhausted", "panicked", "ok", "err"
    bstream,       \* the same pipeline built through BoxedWordStream
    bout,          \* the items the boxed pipeline has yielded so far
    bstatus,       \* status of the boxed pipeline
    sink,          \* what a sink has produced: [file, set]
    game,          \* the Game: [secret, guesses, config, word_pool]
    call,          \* the last call made on the game or the keyboard, and its argument
    result,        \* what the last call returned
    keyboard,      \* the KeyboardState: the recorded state of each letter
    app            \* the rest of the App: the typed input, the message, should_quit

vars == <<a, b, ab, ba, input, input2, op, stages, stream, out, status,
          bstream, bout, bstatus, sink, game, call, result, keyboard, app>>

----------------------------------------------------------------------------
(* Bounds *)

\* longest text handed to case_fold_cmp
MaxWordLen == 2
\* longest source (lines or items) behind a stream
MaxItems == 3
\* longest input on each side of a merge
MaxSide == 2

----------------------------------------------------------------------------
(* Characters: 'I', 'i', U+0130 (capital I with dot above, lowercases to  *)
(* 'i' followed by U+0307), U+0307 (combining dot above), U+03B1 (alpha), *)
(* the space, and 'e' for the words of the game.                         *)

Letters == {73, 105, 304, 775, 945}

Whitespace == {32}

\* char::to_lowercase: the lowercase expansion of one char
to_lowercase(c) ==
    CASE c = 73  -> <<105>>
      [] c = 304 -> <<105, 775>>
      [] OTHER   -> <<c>>

\* char::is_uppercase
is_uppercase(c) == c \in {73, 304}

\* char::is_alphabetic (U+0307 is a nonspacing mark without the Alphabetic property)
is_alphabetic(c) == c \in {73, 99, 101, 105, 304, 945}

\* All texts of at most n chars over the set S
TextsOver(S, n) == UNION {[1..k -> S] : k \in 0..n}

Texts == TextsOver(Letters, MaxWordLen)

----------------------------------------------------------------------------
(* Ordering *)

\* Iterator::cmp / str::cmp: lexicographic comparison by scalar value
RECURSIVE LexCmp(_, _)
LexCmp(s, t) ==
    IF s = <<>> /\ t = <<>> THEN "Equal"
    ELSE IF s = <<>> THEN "Less"
    ELSE IF t = <<>> THEN "Greater"
    ELSE IF Head(s) < Head(t) THEN "Less"
    ELSE IF Head(s) > Head(t) THEN "Greater"
    ELSE LexCmp(Tail(s), Tail(t))

\* bool::cmp, false < true
BoolCmp(x, y) ==
    IF x = y THEN "Equal" ELSE IF y THEN "Less" ELSE "Greater"

\* the tie of char_cmp decided wrongly: no tiebreak on the case
char_cmp_no_tiebreak(x, y) == LexCmp(to_lowercase(x), to_lowercase(y))

\* the tie of char_cmp decided wrongly: an uppercase tie is always Less
char_cmp_tie_less(x, y) ==
    LET c == LexCmp(to_lowercase(x), to_lowercase(y))
    IN  IF c = "Equal" THEN "Less" ELSE c

\* char_cmp: lowercase expansions first, then lowercase before uppercase
char_cmp(x, y) ==
    LET c == LexCmp(to_lowercase(x), to_lowercase(y))
    IN  IF c = "Equal" THEN BoolCmp(is_uppercase(x), is_uppercase(y)) ELSE c

\* case_fold_cmp: char by char over the two texts
RECURSIVE case_fold_cmp(_, _)
case_fold_cmp(s, t) ==
    IF s # <<>> /\ t # <<>> THEN
        LET c == char_cmp(Head(s), Head(t))
        IN  IF c # "Equal" THEN c ELSE case_fold_cmp(Tail(s), Tail(t))
    ELSE IF s # <<>> THEN "Greater"
    ELSE IF t # <<>> THEN "Less"
    ELSE "Equal"

\* str::to_lowercase: the concatenated lowercase expansions
RECURSIVE str_to_lowercase(_)
str_to_lowercase(s) ==
    IF s = <<>> THEN <<>> ELSE to_lowercase(Head(s)) \o str_to_lowercase(Tail(s))

\* the case pattern of a text: is_uppercase, position by position
CasePattern(s) == [i \in 1..Len(s) |-> is_uppercase(s[i])]

----------------------------------------------------------------------------
(* Stream items and iterators *)

Ok(w) == [kind |-> "Ok", w |-> w, e |-> 0]

Err(e) == [kind |-> "Err", w |-> <<>>, e |-> e]

None == [kind |-> "None", w |-> <<>>, e |-> 0]

Panic == [kind |-> "Panic", w |-> <<>>, e |-> 0]

\* what a call of next()/peek() gives: the item and the iterator afterwards
Res(item, it) == [item |-> item, it |-> it]

\* Word::cmp is case_fold_cmp on the wrapped strings
Word_cmp(x, y) == case_fold_cmp(x, y)

\* str::trim: surrounding whitespace removed
RECURSIVE trim_start(_)
trim_start(s) ==
    IF s # <<>> /\ Head(s) \in Whitespace THEN trim_start(Tail(s)) ELSE s

RECURSIVE trim_end(_)
trim_end(s) ==
    IF s # <<>> /\ s[Len(s)] \in Whitespace
    THEN trim_end(SubSeq(s, 1, Len(s) - 1)) ELSE s

trim(s) == trim_end(trim_start(s))

\* dynamic dispatch of Iterator::next over the kinds of iterator
RECURSIVE IterNext(_)

\* a vector of ready items turned into an iterator (the tests' ok_iter / items.into_iter())
VecIter(items) == [kind |-> "Vec", items |-> items, pos |-> 0]

Vec_next(it) ==
    IF it.pos < Len(it.items)
    THEN Res(it.items[it.pos + 1], [it EXCEPT !.pos = @ + 1])
    ELSE Res(None, it)

\* SortedLines::new over the lines of a reader
SortedLines(lines) == [kind |-> "SortedLines", lines |-> lines, pos |-> 0]

\* SortedLines::next: trims, skips blank lines, passes read errors on
RECURSIVE SortedLines_next(_)
SortedLines_next(it) ==
    IF it.pos >= Len(it.lines) THEN Res(None, it)
    ELSE LET line == it.lines[it.pos + 1]
             it1  == [it EXCEPT !.pos = @ + 1]
         IN  IF line.kind = "Ok"
             THEN IF trim(line.w) = <<>>
                  THEN SortedLines_next(it1)
                  ELSE Res(Ok(trim(line.w)), it1)
             ELSE Res(line, it1)

\* Iterator::peekable: a one-item lookahead buffer, peeked : Option<Option<Item>>
Peekable(inner) ==
    [kind |-> "Peekable", inner |-> inner, peeked |-> [has |-> FALSE, item |-> None]]

Peekable_next(it) ==
    IF it.peeked.has
    THEN Res(it.peeked.item, [it EXCEPT !.peeked = [has |-> FALSE, item |-> None]])
    ELSE LET r == IterNext(it.inner)
         IN  Res(r.item, [it EXCEPT !.inner = r.it])

Peekable_peek(it) ==
    IF it.peeked.has
    THEN Res(it.peeked.item, it)
    ELSE LET r == IterNext(it.inner)
         IN  Res(r.item, [it EXCEPT !.inner = r.it,
                                    !.peeked = [has |-> TRUE, item |-> r.item]])

\* WordStream::new filling the lookahead at once
WordStream_new_prefetches(inner) ==
    [kind |-> "WordStream", inner |-> Peekable_peek(Peekable(inner)).it]

\* WordStream::new
WordStream(inner) == [kind |-> "WordStream", inner |-> Peekable(inner)]

\* WordStream::into_inner: the peekable iterator, without the sortedness check
WordStream_into_inner(ws) == ws.inner

\* WordStream::next with the comparison turned round
WordStream_next_reversed(it) ==
    LET r == Peekable_next(it.inner)
    IN  IF r.item.kind = "Ok"
        THEN LET p == Peekable_peek(r.it)
             IN  IF p.item.kind = "Ok" /\ Word_cmp(p.item.w, r.item.w) = "Greater"
                 THEN Res(Panic, [it EXCEPT !.inner = p.it])
                 ELSE Res(r.item, [it EXCEPT !.inner = p.it])
        ELSE Res(r.item, [it EXCEPT !.inner = r.it])

\* WordStream::next: yields the item unless the peeked successor is smaller
WordStream_next(it) ==
    LET r == Peekable_next(it.inner)
    IN  IF r.item.kind = "Ok"
        THEN LET p == Peekable_peek(r.it)
             IN  IF p.item.kind = "Ok" /\ Word_cmp(r.item.w, p.item.w) = "Greater"
                 THEN Res(Panic, [it EXCEPT !.inner = p.it])
                 ELSE Res(r.item, [it EXCEPT !.inner = p.it])
        ELSE Res(r.item, [it EXCEPT !.inner = r.it])

\* the predicates handed to filter: the pipelines' |w| w.chars().count() == 5 (here
\* one char, the model's words being short) and the one of filter_non_alphabetic
Predicate(pred, w) ==
    CASE pred = "chars_count" -> Len(w) = 1
      [] pred = "five_chars"  -> Len(w) = 5
      [] pred = "alphabetic"  -> \A i \in 1..Len(w) : is_alphabetic(w[i])

\* FilterStream::new; calls is the record of the texts the FnMut predicate
\* has been called with
FilterStream(inner, pred) ==
    [kind |-> "Filter", inner |-> inner, pred |-> pred, calls |-> <<>>]

\* FilterStream::next putting the (empty) text of an Err to the predicate too
RECURSIVE FilterStream_next_tests_errors(_)
FilterStream_next_tests_errors(it) ==
    LET r   == IterNext(it.inner)
        it1 == [it EXCEPT !.inner = r.it]
        it2 == [it1 EXCEPT !.calls = Append(@, r.item.w)]
    IN  IF r.item.kind \in {"Ok", "Err"}
        THEN IF Predicate(it.pred, r.item.w)
             THEN Res(r.item, it2)
             ELSE FilterStream_next_tests_errors(it2)
        ELSE Res(r.item, it1)

\* FilterStream::next: calls the predicate on an Ok item and drops the item if
\* it fails; an Err is returned as it is
RECURSIVE FilterStream_next(_)
FilterStream_next(it) ==
    LET r   == IterNext(it.inner)
        it1 == [it EXCEPT !.inner = r.it]
        it2 == [it1 EXCEPT !.calls = Append(@, r.item.w)]
    IN  IF r.item.kind = "Ok"
        THEN IF Predicate(it.pred, r.item.w)
             THEN Res(r.item, it2)
             ELSE FilterStream_next(it2)
        ELSE Res(r.item, it1)

LowercaseStream(inner) == [kind |-> "Lowercase", inner |-> inner]

\* LowercaseStream::next swallowing the errors
RECURSIVE LowercaseStream_next_skips_errors(_)
LowercaseStream_next_skips_errors(it) ==
    LET r   == IterNext(it.inner)
        it1 == [it EXCEPT !.inner = r.it]
    IN  IF r.item.kind = "Ok"
        THEN Res(Ok(str_to_lowercase(r.item.w)), it1)
        ELSE IF r.item.kind = "Err"
        THEN LowercaseStream_next_skips_errors(it1)
        ELSE Res(r.item, it1)

\* LowercaseStream::next
LowercaseStream_next(it) ==
    LET r   == IterNext(it.inner)
        it1 == [it EXCEPT !.inner = r.it]
    IN  IF r.item.kind = "Ok"
        THEN Res(Ok(str_to_lowercase(r.item.w)), it1)
        ELSE Res(r.item, it1)

DedupStream(inner) ==
    [kind |-> "Dedup", inner |-> inner, previous_lower |-> [has |-> FALSE, w |-> <<>>]]

\* DedupStream::next forgetting previous_lower when an Err passes
RECURSIVE DedupStream_next_err_resets(_)
DedupStream_next_err_resets(it) ==
    LET r   == IterNext(it.inner)
        it1 == [it EXCEPT !.inner = r.it]
    IN  IF r.item.kind = "Ok"
        THEN LET s_lower == str_to_lowercase(r.item.w)
                 is_dup  == it.previous_lower.has /\ it.previous_lower.w = s_lower
             IN  IF is_dup
                 THEN DedupStream_next_err_resets(it1)
                 ELSE Res(r.item,
                          [it1 EXCEPT !.previous_lower = [has |-> TRUE, w |-> s_lower]])
        ELSE Res(r.item, [it1 EXCEPT !.previous_lower = [has |-> FALSE, w |-> <<>>]])

\* DedupStream::next comparing the texts as they are, not their lowercase forms
RECURSIVE DedupStream_next_exact(_)
DedupStream_next_exact(it) ==
    LET r   == IterNext(it.inner)
        it1 == [it EXCEPT !.inner = r.it]
    IN  IF r.item.kind = "Ok"
        THEN LET is_dup == it.previous_lower.has /\ it.previous_lower.w = r.item.w
             IN  IF is_dup
                 THEN DedupStream_next_exact(it1)
                 ELSE Res(r.item,
                          [it1 EXCEPT !.previous_lower = [has |-> TRUE, w |-> r.item.w]])
        ELSE Res(r.item, it1)

\* DedupStream::next: skips an Ok item whose lowercase form equals previous_lower
RECURSIVE DedupStream_next(_)
DedupStream_next(it) ==
    LET r   == IterNext(it.inner)
        it1 == [it EXCEPT !.inner = r.it]
    IN  IF r.item.kind = "Ok"
        THEN LET s_lower == str_to_lowercase(r.item.w)
                 is_dup  == it.previous_lower.has /\ it.previous_lower.w = s_lower
             IN  IF is_dup
                 THEN DedupStream_next(it1)
                 ELSE Res(r.item,
                          [it1 EXCEPT !.previous_lower = [has |-> TRUE, w |-> s_lower]])
        ELSE Res(r.item, it1)

\* MergeStream::new over two peekable iterators
MergeStream(left, right) == [kind |-> "Merge", left |-> left, right |-> right]

\* the head comparison of MergeStream::next turned round
MergeStream_next_right_first(it) ==
    LET l     == Peekable_peek(it.left)
        r     == Peekable_peek(it.right)
        it1   == [it EXCEPT !.left = l.it, !.right = r.it]
        takeL == LET n == Peekable_next(l.it) IN Res(n.item, [it1 EXCEPT !.left = n.it])
        takeR == LET n == Peekable_next(r.it) IN Res(n.item, [it1 EXCEPT !.right = n.it])
    IN  IF l.item.kind = "None" /\ r.item.kind = "None" THEN Res(None, it1)
        ELSE IF r.item.kind = "None" THEN takeL
        ELSE IF l.item.kind = "None" THEN takeR
        ELSE IF l.item.kind = "Ok" /\ r.item.kind = "Ok"
             THEN IF Word_cmp(l.item.w, r.item.w) = "Greater" THEN takeL ELSE takeR
        ELSE IF l.item.kind = "Err" THEN takeL
        ELSE takeR

\* the error arms of MergeStream::next swapped: a right error before a left one
MergeStream_next_right_error_first(it) ==
    LET l     == Peekable_peek(it.left)
        r     == Peekable_peek(it.right)
        it1   == [it EXCEPT !.left = l.it, !.right = r.it]
        takeL == LET n == Peekable_next(l.it) IN Res(n.item, [it1 EXCEPT !.left = n.it])
        takeR == LET n == Peekable_next(r.it) IN Res(n.item, [it1 EXCEPT !.right = n.it])
    IN  IF l.item.kind = "None" /\ r.item.kind = "None" THEN Res(None, it1)
        ELSE IF r.item.kind = "None" THEN takeL
        ELSE IF l.item.kind = "None" THEN takeR
        ELSE IF l.item.kind = "Ok" /\ r.item.kind = "Ok"
             THEN IF Word_cmp(l.item.w, r.item.w) # "Greater" THEN takeL ELSE takeR
        ELSE IF r.item.kind = "Err" THEN takeR
        ELSE takeL

\* the tie of MergeStream::next decided for the right head
MergeStream_next_tie_right(it) ==
    LET l     == Peekable_peek(it.left)
        r     == Peekable_peek(it.right)
        it1   == [it EXCEPT !.left = l.it, !.right = r.it]
        takeL == LET n == Peekable_next(l.it) IN Res(n.item, [it1 EXCEPT !.left = n.it])
        takeR == LET n == Peekable_next(r.it) IN Res(n.item, [it1 EXCEPT !.right = n.it])
    IN  IF l.item.kind = "None" /\ r.item.kind = "None" THEN Res(None, it1)
        ELSE IF r.item.kind = "None" THEN takeL
        ELSE IF l.item.kind = "None" THEN takeR
        ELSE IF l.item.kind = "Ok" /\ r.item.kind = "Ok"
             THEN IF Word_cmp(l.item.w, r.item.w) = "Less" THEN takeL ELSE takeR
        ELSE IF l.item.kind = "Err" THEN takeL
        ELSE takeR

\* MergeStream::next: the smaller head, the left one on a tie, errors first
MergeStream_next(it) ==
    LET l     == Peekable_peek(it.left)
        r     == Peekable_peek(it.right)
        it1   == [it EXCEPT !.left = l.it, !.right = r.it]
        takeL == LET n == Peekable_next(l.it) IN Res(n.item, [it1 EXCEPT !.left = n.it])
        takeR == LET n == Peekable_next(r.it) IN Res(n.item, [it1 EXCEPT !.right = n.it])
    IN  IF l.item.kind = "None" /\ r.item.kind = "None" THEN Res(None, it1)
        ELSE IF r.item.kind = "None" THEN takeL
        ELSE IF l.item.kind = "None" THEN takeR
        ELSE IF l.item.kind = "Ok" /\ r.item.kind = "Ok"
             THEN IF Word_cmp(l.item.w, r.item.w) # "Greater" THEN takeL ELSE takeR
        ELSE IF l.item.kind = "Err" THEN takeL
        ELSE takeR

\* BoxedWordStream::new: any iterator behind a Box<dyn Iterator>
BoxedWordStream(iter) == [kind |-> "Boxed", inner |-> iter]

\* BoxedWordStream::next: the inner iterator's next, nothing else
BoxedWordStream_next(it) ==
    LET r == IterNext(it.inner)
    IN  Res(r.item, [it EXCEPT !.inner = r.it])

IterNext(it) ==
    CASE it.kind = "Vec"         -> Vec_next(it)
      [] it.kind = "SortedLines" -> SortedLines_next(it)
      [] it.kind = "Peekable"    -> Peekable_next(it)
      [] it.kind = "WordStream"  -> WordStream_next(it)
      [] it.kind = "Filter"      -> FilterStream_next(it)
      [] it.kind = "Lowercase"   -> LowercaseStream_next(it)
      [] it.kind = "Dedup"       -> DedupStream_next(it)
      [] it.kind = "Merge"       -> MergeStream_next(it)
      [] it.kind = "Boxed"       -> BoxedWordStream_next(it)

\* everything an iterator yields until its end (or its panic, which comes last)
RECURSIVE Drain(_)
Drain(it) ==
    LET r == IterNext(it)
    IN  IF r.item.kind = "None" THEN <<>>
        ELSE IF r.item.kind = "Panic" THEN <<Panic>>
        ELSE <<r.item>> \o Drain(r.it)

----------------------------------------------------------------------------
(* The composition API of the statically typed WordStream and of the      *)
(* BoxedWordStream                                                         *)

\* from_sorted_reader
from_sorted_reader(lines) == WordStream(SortedLines(lines))

\* WordStream::boxed hands the peekable iterator, not the WordStream, to the box
WordStream_boxed(ws) == BoxedWordStream(ws.inner)

WordStream_filter(ws, pred) == WordStream(FilterStream(WordStream_into_inner(ws), pred))

WordStream_to_lowercase(ws) == WordStream(LowercaseStream(WordStream_into_inner(ws)))

WordStream_dedup(ws) == WordStream(DedupStream(WordStream_into_inner(ws)))

WordStream_merge(ws, other) ==
    WordStream(MergeStream(WordStream_into_inner(ws), WordStream_into_inner(other)))

BoxedWordStream_filter(s, pred) == BoxedWordStream(FilterStream(Peekable(s.inner), pred))

BoxedWordStream_to_lowercase(s) == BoxedWordStream(LowercaseStream(Peekable(s.inner)))

BoxedWordStream_dedup(s) == BoxedWordStream(DedupStream(Peekable(s.inner)))

BoxedWordStream_merge(s, other) ==
    BoxedWordStream(MergeStream(Peekable(s.inner), Peekable(other.inner)))

----------------------------------------------------------------------------
(* Word collection and sinks *)

\* SortedSet<String> keeping a text that it holds already
SortedSet_insert_keeps_duplicates(set, w) ==
    LET k == Cardinality({i \in 1..Len(set) : LexCmp(set[i], w) = "Less"})
    IN  SubSeq(set, 1, k) \o <<w>> \o SubSeq(set, k + 1, Len(set))

\* SortedSet<String>: kept sorted by String's own order (scalar values), one entry per text
SortedSet_insert(set, w) ==
    LET k == Cardinality({i \in 1..Len(set) : LexCmp(set[i], w) = "Less"})
    IN  IF k < Len(set) /\ set[k + 1] = w
        THEN set
        ELSE SubSeq(set, 1, k) \o <<w>> \o SubSeq(set, k + 1, Len(set))

\* WordSet::from_iter
RECURSIVE WordSet_from_iter(_)
WordSet_from_iter(vec) ==
    IF vec = <<>> THEN <<>>
    ELSE SortedSet_insert(WordSet_from_iter(SubSeq(vec, 1, Len(vec) - 1)), vec[Len(vec)])

\* binary_search_by(|probe| probe.as_str().cmp(s)) over the entries lo+1..hi
RECURSIVE binary_search_by(_, _, _, _)
binary_search_by(set, s, lo, hi) ==
    IF lo >= hi THEN FALSE
    ELSE LET mid == lo + ((hi - lo) \div 2)
             c   == LexCmp(set[mid + 1], s)
         IN  IF c = "Equal" THEN TRUE
             ELSE IF c = "Less" THEN binary_search_by(set, s, mid + 1, hi)
             ELSE binary_search_by(set, s, lo, mid)

\* WordSet::contains
WordSet_contains(set, s) == binary_search_by(set, s, 0, Len(set))

\* WordSet::len
WordSet_len(set) == Len(set)

\* the line feed
Newline == 10

\* writeln!(writer, "{}", w): the text and a line feed added to what is written
writeln(file, w) == file \o w \o <<Newline>>

\* the locals of the sinks: the collected words, the chars written, the set
\* built (and a second set, to compare it with), the error returned
EmptySink == [vec |-> <<>>, file |-> <<>>, set |-> <<>>, set2 |-> <<>>, err |-> None]

----------------------------------------------------------------------------
(* Inputs *)

\* the words the streams are fed with: i, i + U+0307, i + alpha, I, U+0130
Words == {<<105>>, <<105, 775>>, <<105, 945>>, <<73>>, <<304>>}

\* the lines of a reader: the words, a blank line, a line of spaces around a word
LineTexts == Words \cup {<<>>, <<32, 73, 32>>}

ErrIds == {1}

Items == {Ok(w) : w \in Words} \cup {Err(e) : e \in ErrIds}

Lines == {Ok(w) : w \in LineTexts} \cup {Err(e) : e \in ErrIds}

SeqsOver(S, n) == UNION {[1..k -> S] : k \in 0..n}

\* values of the variables a run does not use
NoOrd == a = <<>> /\ b = <<>> /\ ab = "none" /\ ba = "none"

NoBoxed == bstream = VecIter(<<>>) /\ bout = <<>> /\ bstatus = "unused"

\* no App is running
NoApp ==
    app = [input |-> <<>>, message |-> "None", should_quit |-> FALSE,
           word_pool |-> [words |-> <<>>, word_set |-> {}]]

\* no game is played and no keyboard shown
NoGame ==
    /\ NoApp
    /\ game = [secret |-> <<>>, guesses |-> <<>>, config |-> [max_guesses |-> 0],
               word_pool |-> [words |-> <<>>, word_set |-> {}]]
    /\ call = [method |-> "none", input |-> <<>>]
    /\ result = [kind |-> "none", feedback |-> <<>>]
    /\ keyboard = <<>>

NoStream ==
    /\ input = <<>> /\ input2 = <<>> /\ op = "cmp" /\ stages = <<>>
    /\ stream = VecIter(<<>>) /\ out = <<>> /\ status = "unused"
    /\ sink = EmptySink

----------------------------------------------------------------------------
(* case_fold_cmp applied to two texts *)

InitOrd ==
    /\ a \in Texts /\ b \in Texts
    /\ ab = "none" /\ ba = "none"
    /\ NoStream /\ NoBoxed /\ NoGame

Compare ==
    /\ ab = "none"
    /\ ab' = case_fold_cmp(a, b)
    /\ ba' = case_fold_cmp(b, a)
    /\ UNCHANGED <<a, b, input, input2, op, stages, stream, out, status,
                   bstream, bout, bstatus, sink,
                   game, call, result, keyboard, app>>

NextOrd == Compare

SpecOrd == InitOrd /\ [][NextOrd]_vars

----------------------------------------------------------------------------
(* A stream from from_sorted_reader, drained in one of the ways the API   *)
(* offers                                                                  *)

IterModes == {"iter", "boxed"}

WriteModes == {"write_to_file", "write_to_zst_file", "boxed_write_to_file"}

Modes == IterModes \cup {"collect_to_set"} \cup WriteModes

\* the iterator each way of draining pulls from
Drained(mode, ws) ==
    CASE mode = "iter"                -> ws
      [] mode = "boxed"               -> WordStream_boxed(ws)
      [] mode = "collect_to_set"      -> WordStream_into_inner(ws)
      [] mode = "write_to_file"       -> WordStream_into_inner(ws)
      [] mode = "write_to_zst_file"   -> WordStream_into_inner(ws)
      [] mode = "boxed_write_to_file" -> WordStream_boxed(ws).inner

Init ==
    /\ input \in SeqsOver(Lines, MaxItems)
    /\ input2 = <<>>
    /\ op \in Modes
    /\ stages = <<>>
    /\ stream = Drained(op, from_sorted_reader(input))
    /\ out = <<>>
    /\ status = "running"
    /\ sink = EmptySink
    /\ NoOrd /\ NoBoxed /\ NoGame

\* the consumer calls next() on the stream
Step ==
    /\ status = "running"
    /\ op \notin ({"collect_to_set"} \cup WriteModes)
    /\ LET r == IterNext(stream)
       IN  /\ stream' = r.it
           /\ out' = IF r.item.kind \in {"Ok", "Err"} THEN Append(out, r.item) ELSE out
           /\ status' = CASE r.item.kind = "None"  -> "exhausted"
                          [] r.item.kind = "Panic" -> "panicked"
                          [] OTHER                 -> "running"
    /\ UNCHANGED <<a, b, ab, ba, input, input2, op, stages, bstream, bout, bstatus, sink,
                   game, call, result, keyboard, app>>

\* the collect of collect_to_set going on after an Err, to the end of the stream
CollectStep_keeps_pulling ==
    /\ status = "running"
    /\ op = "collect_to_set"
    /\ LET r == IterNext(stream)
       IN  /\ stream' = r.it
           /\ out' = IF r.item.kind \in {"Ok", "Err"} THEN Append(out, r.item) ELSE out
           /\ status' = CASE r.item.kind = "None"  -> IF sink.err = None THEN "ok" ELSE "err"
                          [] r.item.kind = "Panic" -> "panicked"
                          [] OTHER                 -> "running"
           /\ sink' = CASE r.item.kind = "Ok"   -> [sink EXCEPT !.vec = Append(@, r.item.w)]
                        [] r.item.kind = "Err"  ->
                              IF sink.err = None THEN [sink EXCEPT !.err = r.item] ELSE sink
                        [] r.item.kind = "None" ->
                              IF sink.err = None
                              THEN [sink EXCEPT !.set = WordSet_from_iter(sink.vec)] ELSE sink
                        [] OTHER                -> sink
    /\ UNCHANGED <<a, b, ab, ba, input, input2, op, stages, bstream, bout, bstatus,
                   game, call, result, keyboard, app>>

\* one round of the collect in collect_to_set; at the end the WordSet is built
CollectStep ==
    /\ status = "running"
    /\ op = "collect_to_set"
    /\ LET r == IterNext(stream)
       IN  /\ stream' = r.it
           /\ out' = IF r.item.kind \in {"Ok", "Err"} THEN Append(out, r.item) ELSE out
           /\ status' = CASE r.item.kind = "None"  -> "ok"
                          [] r.item.kind = "Panic" -> "panicked"
                          [] r.item.kind = "Err"   -> "err"
                          [] OTHER                 -> "running"
           /\ sink' = CASE r.item.kind = "Ok"   -> [sink EXCEPT !.vec = Append(@, r.item.w)]
                        [] r.item.kind = "Err"  -> [sink EXCEPT !.err = r.item]
                        [] r.item.kind = "None" -> [sink EXCEPT !.set = WordSet_from_iter(sink.vec)]
                        [] OTHER                -> sink
    /\ UNCHANGED <<a, b, ab, ba, input, input2, op, stages, bstream, bout, bstatus,
                   game, call, result, keyboard, app>>

\* the loop of write_to_writer emptying the output when it meets an Err
WriteStep_rolls_back ==
    /\ status = "running"
    /\ op \in WriteModes
    /\ LET r == IterNext(stream)
       IN  /\ stream' = r.it
           /\ out' = IF r.item.kind \in {"Ok", "Err"} THEN Append(out, r.item) ELSE out
           /\ status' = CASE r.item.kind = "None"  -> "ok"
                          [] r.item.kind = "Panic" -> "panicked"
                          [] r.item.kind = "Err"   -> "err"
                          [] OTHER                 -> "running"
           /\ sink' = CASE r.item.kind = "Ok"  -> [sink EXCEPT !.file = writeln(@, r.item.w)]
                        [] r.item.kind = "Err" -> [sink EXCEPT !.err = r.item, !.file = <<>>]
                        [] OTHER               -> sink
    /\ UNCHANGED <<a, b, ab, ba, input, input2, op, stages, bstream, bout, bstatus,
                   game, call, result, keyboard, app>>

\* one round of the loop of write_to_writer: a line per Ok item, stop at an Err
WriteStep ==
    /\ status = "running"
    /\ op \in WriteModes
    /\ LET r == IterNext(stream)
       IN  /\ stream' = r.it
           /\ out' = IF r.item.kind \in {"Ok", "Err"} THEN Append(out, r.item) ELSE out
           /\ status' = CASE r.item.kind = "None"  -> "ok"
                          [] r.item.kind = "Panic" -> "panicked"
                          [] r.item.kind = "Err"   -> "err"
                          [] OTHER                 -> "running"
           /\ sink' = CASE r.item.kind = "Ok"  -> [sink EXCEPT !.file = writeln(@, r.item.w)]
                        [] r.item.kind = "Err" -> [sink EXCEPT !.err = r.item]
                        [] OTHER               -> sink
    /\ UNCHANGED <<a, b, ab, ba, input, input2, op, stages, bstream, bout, bstatus,
                   game, call, result, keyboard, app>>

Next == Step \/ CollectStep \/ WriteStep

Spec == Init /\ [][Next]_vars

----------------------------------------------------------------------------
(* MergeStream over two vectors of items *)

InitMerge ==
    /\ input \in SeqsOver(Items, MaxSide)
    /\ input2 \in SeqsOver(Items, MaxSide)
    /\ op = "merge_raw"
    /\ stages = <<>>
    /\ stream = MergeStream(Peekable(VecIter(input)), Peekable(VecIter(input2)))
    /\ out = <<>>
    /\ status = "running"
    /\ sink = EmptySink
    /\ NoOrd /\ NoBoxed /\ NoGame

NextMerge == Step

SpecMerge == InitMerge /\ [][NextMerge]_vars

----------------------------------------------------------------------------
(* One pipeline built twice from the same items: through the statically   *)
(* typed WordStream and through BoxedWordStream.  The typed one is        *)
(* iterated to its end first, then the boxed one.                         *)

ChainOps == {"none", "filter", "filter_alphabetic", "to_lowercase", "dedup", "merge"}

TypedPipeline(o, x, y) ==
    LET s == WordStream(VecIter(x))
    IN  CASE o = "none"              -> s
          [] o = "filter"            -> WordStream_filter(s, "chars_count")
          [] o = "filter_alphabetic" -> WordStream_filter(s, "alphabetic")
          [] o = "to_lowercase"      -> WordStream_to_lowercase(s)
          [] o = "dedup"             -> WordStream_dedup(s)
          [] o = "merge"             -> WordStream_merge(s, WordStream(VecIter(y)))

BoxedPipeline(o, x, y) ==
    LET s == WordStream_boxed(WordStream(VecIter(x)))
    IN  CASE o = "none"              -> s
          [] o = "filter"            -> BoxedWordStream_filter(s, "chars_count")
          [] o = "filter_alphabetic" -> BoxedWordStream_filter(s, "alphabetic")
          [] o = "to_lowercase"      -> BoxedWordStream_to_lowercase(s)
          [] o = "dedup"             -> BoxedWordStream_dedup(s)
          [] o = "merge"             ->
                BoxedWordStream_merge(s, WordStream_boxed(WordStream(VecIter(y))))

InitPipe ==
    /\ op \in ChainOps
    /\ stages = <<>>
    /\ IF op = "merge"
       THEN input \in SeqsOver(Items, MaxSide) /\ input2 \in SeqsOver(Items, MaxSide)
       ELSE input \in SeqsOver(Items, MaxItems) /\ input2 = <<>>
    /\ stream = TypedPipeline(op, input, input2)
    /\ bstream = BoxedPipeline(op, input, input2)
    /\ out = <<>> /\ bout = <<>>
    /\ status = "running" /\ bstatus = "running"
    /\ sink = EmptySink
    /\ NoOrd /\ NoGame

\* the consumer calls next() on the boxed stream
BoxedStep ==
    /\ status \in {"exhausted", "panicked"}
    /\ bstatus = "running"
    /\ LET r == IterNext(bstream)
       IN  /\ bstream' = r.it
           /\ bout' = IF r.item.kind \in {"Ok", "Err"} THEN Append(bout, r.item) ELSE bout
           /\ bstatus' = CASE r.item.kind = "None"  -> "exhausted"
                           [] r.item.kind = "Panic" -> "panicked"
                           [] OTHER                 -> "running"
    /\ UNCHANGED <<a, b, ab, ba, input, input2, op, stages, stream, out, status, sink,
                   game, call, result, keyboard, app>>

NextPipe == Step \/ BoxedStep

SpecPipe == InitPipe /\ [][NextPipe]_vars

----------------------------------------------------------------------------
(* A chain of transforms on a source that yields words and errors, built  *)
(* through the statically typed WordStream or through BoxedWordStream, and *)
(* iterated to its end                                                     *)

\* the source's items: i + U+0307, I, and two different errors
ChainItems == {Ok(<<105, 775>>), Ok(<<73>>), Err(1), Err(2)}

Transforms == ChainOps \ {"none"}

\* the items of the stream merged in: I and the two errors
MergedItems == {Ok(<<73>>), Err(1), Err(2)}

\* the chains: no transform, one transform, two transforms in a row (one
\* stream is merged in at most)
Chains ==
    {<<>>} \cup {<<t>> : t \in Transforms}
           \cup {<<t, u>> : t \in Transforms, u \in Transforms \ {"merge"}}
           \cup {<<t, "merge">> : t \in Transforms \ {"merge"}}

\* one transform put onto a typed stream
ApplyTyped(s, o, y) ==
    CASE o = "filter"            -> WordStream_filter(s, "chars_count")
      [] o = "filter_alphabetic" -> WordStream_filter(s, "alphabetic")
      [] o = "to_lowercase"      -> WordStream_to_lowercase(s)
      [] o = "dedup"             -> WordStream_dedup(s)
      [] o = "merge"             -> WordStream_merge(s, WordStream(VecIter(y)))

\* one transform put onto a boxed stream
ApplyBoxed(s, o, y) ==
    CASE o = "filter"            -> BoxedWordStream_filter(s, "chars_count")
      [] o = "filter_alphabetic" -> BoxedWordStream_filter(s, "alphabetic")
      [] o = "to_lowercase"      -> BoxedWordStream_to_lowercase(s)
      [] o = "dedup"             -> BoxedWordStream_dedup(s)
      [] o = "merge"             ->
            BoxedWordStream_merge(s, WordStream_boxed(WordStream(VecIter(y))))

RECURSIVE TypedChain(_, _, _)
TypedChain(c, x, y) ==
    IF c = <<>> THEN WordStream(VecIter(x))
    ELSE ApplyTyped(TypedChain(SubSeq(c, 1, Len(c) - 1), x, y), c[Len(c)], y)

RECURSIVE BoxedChain(_, _, _)
BoxedChain(c, x, y) ==
    IF c = <<>> THEN WordStream_boxed(WordStream(VecIter(x)))
    ELSE ApplyBoxed(BoxedChain(SubSeq(c, 1, Len(c) - 1), x, y), c[Len(c)], y)

HasMerge(c) == \E i \in 1..Len(c) : c[i] = "merge"

InitChain ==
    /\ op \in {"typed_chain", "boxed_chain"}
    /\ stages \in Chains
    /\ IF HasMerge(stages)
       THEN input \in SeqsOver(ChainItems, MaxSide) /\ input2 \in SeqsOver(MergedItems, MaxSide)
       ELSE input \in SeqsOver(ChainItems, MaxItems) /\ input2 = <<>>
    /\ stream = IF op = "typed_chain"
                THEN TypedChain(stages, input, input2)
                ELSE BoxedChain(stages, input, input2)
    /\ out = <<>>
    /\ status = "running"
    /\ sink = EmptySink
    /\ NoOrd /\ NoBoxed /\ NoGame

NextChain == Step

SpecChain == InitChain /\ [][NextChain]_vars

----------------------------------------------------------------------------
(* A word collection written to a file, plain or zstd-compressed, and the *)
(* file read back as a sorted stream                                       *)

\* WordStream::from_word_set: the entries of the set in the set's order, each in Ok
from_word_set(set) == WordStream(VecIter([i \in 1..Len(set) |-> Ok(set[i])]))

\* the zstd Encoder and Decoder: a frame around the content, and the content
\* of a frame
zstd_encode(content) == [frame |-> "zstd", content |-> content]

zstd_decode(file) == file.content

\* BufRead::lines: the content cut at the line feeds, a last line without a
\* line feed included; every line is read without an error
RECURSIVE SplitLines(_, _)
SplitLines(content, line) ==
    IF content = <<>> THEN (IF line = <<>> THEN <<>> ELSE <<line>>)
    ELSE IF Head(content) = Newline
         THEN <<line>> \o SplitLines(Tail(content), <<>>)
         ELSE SplitLines(Tail(content), Append(line, Head(content)))

BufRead_lines(content) ==
    LET ls == SplitLines(content, <<>>)
    IN  [i \in 1..Len(ls) |-> Ok(ls[i])]

\* from_sorted_file / from_sorted_zst_file over what the write left on disk
from_sorted_file(file) == from_sorted_reader(BufRead_lines(file))

from_sorted_zst_file(file) == from_sorted_reader(BufRead_lines(zstd_decode(file)))

InitRound ==
    /\ input \in SeqsOver({Ok(w) : w \in Words}, MaxItems)
    /\ input2 = <<>>
    /\ op \in {"write_to_file", "write_to_zst_file"}
    /\ stages = <<>>
    /\ sink = [EmptySink EXCEPT
                 !.set = WordSet_from_iter([i \in 1..Len(input) |-> input[i].w])]
    /\ stream = WordStream_into_inner(from_word_set(sink.set))
    /\ out = <<>>
    /\ status = "running"
    /\ NoOrd /\ NoBoxed /\ NoGame

\* the written file is opened with the matching source
Reopen ==
    /\ status = "ok"
    /\ op \in {"write_to_file", "write_to_zst_file"}
    /\ op' = IF op = "write_to_file" THEN "from_sorted_file" ELSE "from_sorted_zst_file"
    /\ stream' = IF op = "write_to_file"
                 THEN from_sorted_file(sink.file)
                 ELSE from_sorted_zst_file(zstd_encode(sink.file))
    /\ out' = <<>>
    /\ status' = "running"
    /\ UNCHANGED <<a, b, ab, ba, input, input2, stages, bstream, bout, bstatus, sink,
                   game, call, result, keyboard, app>>

NextRound == WriteStep \/ Reopen \/ Step

SpecRound == InitRound /\ [][NextRound]_vars

----------------------------------------------------------------------------
(* The unsorted loaders: the whole input read, sorted in memory, and the  *)
(* result iterated                                                         *)

\* Vec<Word>::sort with the String order in the place of Word's order
RECURSIVE Vec_sort_by_string(_)
Vec_sort_by_string(words) ==
    IF words = <<>> THEN <<>>
    ELSE LET rest == Vec_sort_by_string(SubSeq(words, 1, Len(words) - 1))
             w    == words[Len(words)]
             k    == Cardinality({i \in 1..Len(rest) : LexCmp(rest[i], w) # "Greater"})
         IN  SubSeq(rest, 1, k) \o <<w>> \o SubSeq(rest, k + 1, Len(rest))

\* Vec<Word>::sort: a stable sort by Word::cmp; a word goes behind the words
\* that are not Greater than it
RECURSIVE Vec_sort(_)
Vec_sort(words) ==
    IF words = <<>> THEN <<>>
    ELSE LET rest == Vec_sort(SubSeq(words, 1, Len(words) - 1))
             w    == words[Len(words)]
             k    == Cardinality({i \in 1..Len(rest) : Word_cmp(rest[i], w) # "Greater"})
         IN  SubSeq(rest, 1, k) \o <<w>> \o SubSeq(rest, k + 1, Len(rest))

\* UnsortedWords::new: the words of the vector, each in Ok
UnsortedWords(words) == VecIter([i \in 1..Len(words) |-> Ok(words[i])])

\* what a loader returns: Ok with a stream, or the Err of a line
Loaded(ws) == [kind |-> "Ok", stream |-> ws, err |-> None]

LoadFailed(e) == [kind |-> "Err", stream |-> VecIter(<<>>), err |-> e]

\* the loop of from_txt over the lines from position n on: `?` returns the
\* Err of a line; a line is trimmed and pushed unless it is empty
RECURSIVE from_txt_lines(_, _, _)
from_txt_lines(lines, n, words) ==
    IF n > Len(lines) THEN Loaded(WordStream(UnsortedWords(Vec_sort(words))))
    ELSE IF lines[n].kind = "Err" THEN LoadFailed(lines[n])
    ELSE IF trim(lines[n].w) = <<>> THEN from_txt_lines(lines, n + 1, words)
    ELSE from_txt_lines(lines, n + 1, Append(words, trim(lines[n].w)))

from_txt(lines) == from_txt_lines(lines, 1, <<>>)

\* the filter_map of from_unsorted_reader: line.ok()? leaves an unreadable
\* line out, like an empty one
RECURSIVE filter_map_lines(_)
filter_map_lines(lines) ==
    IF lines = <<>> THEN <<>>
    ELSE IF Head(lines).kind = "Err" \/ trim(Head(lines).w) = <<>>
         THEN filter_map_lines(Tail(lines))
         ELSE <<trim(Head(lines).w)>> \o filter_map_lines(Tail(lines))

from_unsorted_reader(lines) ==
    Loaded(WordStream(UnsortedWords(Vec_sort(filter_map_lines(lines)))))

Loaders == {"from_txt", "from_unsorted_reader"}

InitUnsorted ==
    /\ input \in SeqsOver(Lines, MaxItems)
    /\ input2 = <<>>
    /\ op \in Loaders
    /\ stages = <<>>
    /\ stream = VecIter(<<>>)
    /\ out = <<>>
    /\ status = "loading"
    /\ sink = EmptySink
    /\ NoOrd /\ NoBoxed /\ NoGame

\* the call of the loader: it returns a stream or an error
Load ==
    /\ status = "loading"
    /\ op \in Loaders
    /\ LET res == IF op = "from_txt" THEN from_txt(input) ELSE from_unsorted_reader(input)
       IN  /\ stream' = res.stream
           /\ status' = IF res.kind = "Ok" THEN "running" ELSE "err"
           /\ sink' = [sink EXCEPT !.err = res.err]
    /\ UNCHANGED <<a, b, ab, ba, input, input2, op, stages, out, bstream, bout, bstatus,
                   game, call, result, keyboard, app>>

NextUnsorted == Load \/ Step

SpecUnsorted == InitUnsorted /\ [][NextUnsorted]_vars

----------------------------------------------------------------------------
(* Word collections built from sequences of words, asked for a text, and  *)
(* iterated as a stream                                                    *)

\* the words put into the collections: i, I, i + alpha
SetWords == {<<105>>, <<73>>, <<105, 945>>}

\* the texts of a sequence of Ok items
TextsOf(items) == [i \in 1..Len(items) |-> items[i].w]

InitSet ==
    /\ input \in SeqsOver({Ok(w) : w \in SetWords}, MaxItems)
    /\ input2 \in SeqsOver({Ok(w) : w \in SetWords}, MaxSide)
    /\ op = "word_set"
    /\ stages = <<>>
    /\ stream = VecIter(<<>>)
    /\ out = <<>>
    /\ status = "collecting"
    /\ sink = EmptySink
    /\ NoOrd /\ NoBoxed /\ NoGame

\* the two sequences are collected into two WordSets
CollectSets ==
    /\ status = "collecting"
    /\ op = "word_set"
    /\ sink' = [sink EXCEPT !.set  = WordSet_from_iter(TextsOf(input)),
                            !.set2 = WordSet_from_iter(TextsOf(input2))]
    /\ status' = "collected"
    /\ UNCHANGED <<a, b, ab, ba, input, input2, op, stages, stream, out,
                   bstream, bout, bstatus,
                   game, call, result, keyboard, app>>

\* contains(s) is asked of the first set
Contains ==
    /\ status = "collected"
    /\ ab = "none"
    /\ \E s \in Words :
          /\ a' = s
          /\ ab' = IF WordSet_contains(sink.set, s) THEN "true" ELSE "false"
    /\ UNCHANGED <<b, ba, input, input2, op, stages, stream, out, status,
                   bstream, bout, bstatus, sink,
                   game, call, result, keyboard, app>>

\* WordStream::from_word_set(set), to be iterated
IterSet ==
    /\ status = "collected"
    /\ stream' = from_word_set(sink.set)
    /\ status' = "running"
    /\ UNCHANGED <<a, b, ab, ba, input, input2, op, stages, out,
                   bstream, bout, bstatus, sink,
                   game, call, result, keyboard, app>>

NextSet == CollectSets \/ Contains \/ IterSet \/ Step

SpecSet == InitSet /\ [][NextSet]_vars

----------------------------------------------------------------------------
(* The word list processing: every input file loaded, cleaned and boxed,  *)
(* the inputs merged, the result deduplicated and written                 *)

\* the words of the input files: iiiii, i-alpha-iii, Iiiii, a five-char word
\* with U+0307 in it, a five-char word with U+0130 in it, and a word of two
\* chars
CleanWords ==
    {<<105, 105, 105, 105, 105>>, <<105, 945, 105, 105, 105>>,
     <<73, 105, 105, 105, 105>>, <<105, 775, 105, 105, 105>>,
     <<304, 105, 105, 105, 105>>, <<105, 105>>}

\* the words of the second input file
CleanWords2 == {<<105, 105, 105, 105, 105>>, <<73, 105, 105, 105, 105>>, <<105, 105>>}

\* process_input_stream: filter to 5-char words, filter non-alphabetic,
\* lowercase, dedup, boxed
process_input_stream(ws) ==
    WordStream_boxed(
        WordStream_dedup(
            WordStream_to_lowercase(
                WordStream_filter(WordStream_filter(ws, "five_chars"), "alphabetic"))))

\* process_input_file: the lines of the file loaded by the unsorted source
\* (sort, then stream) and processed
process_input_file(lines) == process_input_stream(from_unsorted_reader(lines).stream)

\* the loop of process_output: the inputs from position n on merged into stream
RECURSIVE merge_inputs(_, _, _)
merge_inputs(s, inputs, n) ==
    IF n > Len(inputs) THEN s
    ELSE merge_inputs(BoxedWordStream_merge(s, process_input_file(inputs[n])), inputs, n + 1)

\* process_output up to the stream that is written: the first input, the
\* other inputs merged into it, and a dedup
process_output(inputs) ==
    BoxedWordStream_dedup(merge_inputs(process_input_file(inputs[1]), inputs, 2))

InitClean ==
    /\ input \in SeqsOver({Ok(w) : w \in CleanWords}, MaxItems)
    /\ input2 \in SeqsOver({Ok(w) : w \in CleanWords2}, MaxSide)
    /\ op = "write_to_zst_file"
    /\ stages = <<"process_output">>
    /\ stream = process_output(<<input, input2>>).inner
    /\ out = <<>>
    /\ status = "running"
    /\ sink = EmptySink
    /\ NoOrd /\ NoBoxed /\ NoGame

NextClean == WriteStep

SpecClean == InitClean /\ [][NextClean]_vars

----------------------------------------------------------------------------
(* The guessing game: letters and words, the feedback of a guess, the     *)
(* Game, and the keyboard of the terminal front end                       *)

\* the variables of the word streams, which the game leaves alone
streamVars == <<a, b, ab, ba, input, input2, op, stages, stream, out, status,
                bstream, bout, bstatus, sink>>

\* the number of letters of a word of the game
WORD_LENGTH == 5

\* most guesses a game is configured with
MaxGuesses == 3

\* MAX_GUESSES of the game's constants, the max_guesses of GameConfig::default(),
\* cut to the bound
MAX_GUESSES == MaxGuesses

\* Letter::new: None for a char that is not alphabetic, else the first char
\* of its lowercase expansion
Letter_new(c) ==
    IF is_alphabetic(c) THEN [some |-> TRUE, c |-> Head(to_lowercase(c))]
    ELSE [some |-> FALSE, c |-> 0]

\* Option<Word>
NoWord == [some |-> FALSE, word |-> <<>>]

SomeWord(w) == [some |-> TRUE, word |-> w]

\* Word::parse: None unless the text has WORD_LENGTH chars, all of them letters
Word_parse(s) ==
    IF Len(s) # WORD_LENGTH THEN NoWord
    ELSE IF \E i \in 1..WORD_LENGTH : ~Letter_new(s[i]).some THEN NoWord
    ELSE SomeWord([i \in 1..WORD_LENGTH |-> Letter_new(s[i]).c])

\* the first pass of evaluate: the feedback with the exact matches marked
first_pass_feedback(guess, secret) ==
    [i \in 1..WORD_LENGTH |-> IF guess[i] = secret[i] THEN "Correct" ELSE "NotInWord"]

\* the first pass of evaluate: secret_remaining, a matched letter taken out
\* (None is 0)
first_pass_remaining(guess, secret) ==
    [i \in 1..WORD_LENGTH |-> IF guess[i] = secret[i] THEN 0 ELSE secret[i]]

\* the second pass of evaluate marking a letter without using it up
RECURSIVE second_pass_keeps_remaining(_, _, _, _)
second_pass_keeps_remaining(guess, feedback, secret_remaining, i) ==
    IF i > WORD_LENGTH THEN feedback
    ELSE IF feedback[i] = "Correct"
    THEN second_pass_keeps_remaining(guess, feedback, secret_remaining, i + 1)
    ELSE LET found == {p \in 1..WORD_LENGTH : secret_remaining[p] = guess[i]}
         IN  IF found # {}
             THEN second_pass_keeps_remaining(guess, [feedback EXCEPT ![i] = "WrongPosition"],
                                              secret_remaining, i + 1)
             ELSE second_pass_keeps_remaining(guess, feedback, secret_remaining, i + 1)

\* the second pass of evaluate from position i on: a letter that is not
\* Correct and is found in secret_remaining is marked WrongPosition, and the
\* first place where it was found is emptied
RECURSIVE second_pass(_, _, _, _)
second_pass(guess, feedback, secret_remaining, i) ==
    IF i > WORD_LENGTH THEN feedback
    ELSE IF feedback[i] = "Correct"
    THEN second_pass(guess, feedback, secret_remaining, i + 1)
    ELSE LET found == {p \in 1..WORD_LENGTH : secret_remaining[p] = guess[i]}
         IN  IF found # {}
             THEN LET pos == CHOOSE p \in found : \A q \in found : p <= q
                  IN  second_pass(guess, [feedback EXCEPT ![i] = "WrongPosition"],
                                  [secret_remaining EXCEPT ![pos] = 0], i + 1)
             ELSE second_pass(guess, feedback, secret_remaining, i + 1)

\* GuessFeedback::evaluate
GuessFeedback_evaluate(guess, secret) ==
    [word     |-> guess,
     feedback |-> second_pass(guess, first_pass_feedback(guess, secret),
                              first_pass_remaining(guess, secret), 1)]

\* GuessFeedback::is_win: all Correct
GuessFeedback_is_win(f) == \A i \in 1..Len(f.feedback) : f.feedback[i] = "Correct"

\* WordPool::from_words
WordPool_from_words(words) ==
    [words |-> words, word_set |-> {words[i] : i \in 1..Len(words)}]

\* the filter_map of WordPool::from_strings: the texts that parse, as words
RECURSIVE filter_map_parse(_)
filter_map_parse(strings) ==
    IF strings = <<>> THEN <<>>
    ELSE IF Word_parse(Head(strings)).some
         THEN <<Word_parse(Head(strings)).word>> \o filter_map_parse(Tail(strings))
         ELSE filter_map_parse(Tail(strings))

\* WordPool::from_strings
WordPool_from_strings(strings) == WordPool_from_words(filter_map_parse(strings))

\* WordPool::contains
WordPool_contains(pool, word) == word \in pool.word_set

\* GameState
Playing == [kind |-> "Playing", guesses_used |-> 0]

Won(n) == [kind |-> "Won", guesses_used |-> n]

Lost == [kind |-> "Lost", guesses_used |-> 0]

\* GuessResult
Accepted(f) == [kind |-> "Accepted", feedback |-> f]

NotInWordList == [kind |-> "NotInWordList", feedback |-> <<>>]

GameOver == [kind |-> "GameOver", feedback |-> <<>>]

InvalidInput == [kind |-> "InvalidInput", feedback |-> <<>>]

\* Game::with_secret, Game::with_config once the secret is chosen
NewGame(word_pool, secret, max_guesses) ==
    [secret |-> secret, guesses |-> <<>>, config |-> [max_guesses |-> max_guesses],
     word_pool |-> word_pool]

\* Game::state looking at the number of guesses before the last guess
Game_state_lost_first(g) ==
    IF Len(g.guesses) >= g.config.max_guesses THEN Lost
    ELSE IF g.guesses # <<>> /\ GuessFeedback_is_win(g.guesses[Len(g.guesses)])
    THEN Won(Len(g.guesses))
    ELSE Playing

\* Game::state
Game_state(g) ==
    IF g.guesses # <<>> /\ GuessFeedback_is_win(g.guesses[Len(g.guesses)])
    THEN Won(Len(g.guesses))
    ELSE IF Len(g.guesses) >= g.config.max_guesses THEN Lost
    ELSE Playing

\* Game::guess_word recording the feedback before it looks the word up
Game_guess_word_pushes_unlisted(g, word) ==
    LET f == GuessFeedback_evaluate(word, g.secret)
    IN  IF Game_state(g) # Playing THEN [game |-> g, result |-> GameOver]
        ELSE IF ~WordPool_contains(g.word_pool, word)
        THEN [game |-> [g EXCEPT !.guesses = Append(@, f)], result |-> NotInWordList]
        ELSE [game |-> [g EXCEPT !.guesses = Append(@, f)], result |-> Accepted(f)]

\* Game::guess_word without the check of the state
Game_guess_word_ignores_state(g, word) ==
    IF ~WordPool_contains(g.word_pool, word)
    THEN [game |-> g, result |-> NotInWordList]
    ELSE LET f == GuessFeedback_evaluate(word, g.secret)
         IN  [game |-> [g EXCEPT !.guesses = Append(@, f)], result |-> Accepted(f)]

\* Game::guess_word: the game after the call and what the call returns
Game_guess_word(g, word) ==
    IF Game_state(g) # Playing THEN [game |-> g, result |-> GameOver]
    ELSE IF ~WordPool_contains(g.word_pool, word)
    THEN [game |-> g, result |-> NotInWordList]
    ELSE LET f == GuessFeedback_evaluate(word, g.secret)
         IN  [game |-> [g EXCEPT !.guesses = Append(@, f)], result |-> Accepted(f)]

\* Game::guess
Game_guess(g, s) ==
    IF Word_parse(s).some THEN Game_guess_word(g, Word_parse(s).word)
    ELSE [game |-> g, result |-> InvalidInput]

\* Game::guesses
Game_guesses(g) == g.guesses

\* Game::guesses_remaining, a saturating subtraction
Game_guesses_remaining(g) ==
    IF g.config.max_guesses >= Len(g.guesses)
    THEN g.config.max_guesses - Len(g.guesses) ELSE 0

\* Game::current_guess_number
Game_current_guess_number(g) == Len(g.guesses) + 1

\* Game::secret handing out the secret at any time
Game_secret_at_any_time(g) == SomeWord(g.secret)

\* Game::secret
Game_secret(g) == IF Game_state(g) = Playing THEN NoWord ELSE SomeWord(g.secret)

\* the texts typed as guesses: iiiii, i-alpha-iii, alpha-iiii, Iiiii, a text
\* of two chars, and five chars with U+0307 among them
GuessInputs ==
    {<<105, 105, 105, 105, 105>>, <<105, 945, 105, 105, 105>>,
     <<945, 105, 105, 105, 105>>, <<73, 105, 105, 105, 105>>,
     <<105, 105>>, <<105, 775, 105, 105, 105>>}

\* the words handed to guess_word and with_secret
GameWords == {Word_parse(s).word : s \in {t \in GuessInputs : Word_parse(t).some}}

\* the word lists the pools are made from
PoolStrings ==
    {<< <<105, 105, 105, 105, 105>>, <<105, 945, 105, 105, 105>> >>,
     << <<105, 105, 105, 105, 105>>, <<105, 945, 105, 105, 105>>,
        <<945, 105, 105, 105, 105>> >>,
     << <<73, 105, 105, 105, 105>>, <<105, 105>>, <<105, 945, 105, 105, 105>> >>}

\* the stream variables of a run in which no stream is used
NoStreamFor(o) ==
    /\ input = <<>> /\ input2 = <<>> /\ op = o /\ stages = <<>>
    /\ stream = VecIter(<<>>) /\ out = <<>> /\ status = "unused"
    /\ sink = EmptySink

\* a game made by with_secret (any secret, the default config) or by
\* with_config (a word of the pool as the secret, any max_guesses)
InitGame ==
    /\ \E strings \in PoolStrings, o \in {"with_secret", "with_config"} :
          LET pool == WordPool_from_strings(strings)
          IN  /\ NoStreamFor(o)
              /\ IF o = "with_secret"
                 THEN \E secret \in GameWords : game = NewGame(pool, secret, MAX_GUESSES)
                 ELSE \E n \in 1..Len(pool.words), m \in 0..MaxGuesses :
                         game = NewGame(pool, pool.words[n], m)
    /\ call = [method |-> "none", input |-> <<>>]
    /\ result = [kind |-> "none", feedback |-> <<>>]
    /\ keyboard = <<>>
    /\ NoApp
    /\ NoOrd /\ NoBoxed

\* game.guess(input)
Guess ==
    /\ op \in {"with_secret", "with_config"}
    /\ \E s \in GuessInputs :
          /\ call' = [method |-> "guess", input |-> s]
          /\ game' = Game_guess(game, s).game
          /\ result' = Game_guess(game, s).result
    /\ UNCHANGED <<streamVars, keyboard, app>>

\* game.guess_word(word)
GuessWord ==
    /\ op \in {"with_secret", "with_config"}
    /\ \E w \in GameWords :
          /\ call' = [method |-> "guess_word", input |-> w]
          /\ game' = Game_guess_word(game, w).game
          /\ result' = Game_guess_word(game, w).result
    /\ UNCHANGED <<streamVars, keyboard, app>>

NextGame == Guess \/ GuessWord

SpecGame == InitGame /\ [][NextGame]_vars

\* the letters of the words that are evaluated: e, i, alpha
FeedbackLetters == {101, 105, 945}

\* every word of the game over these letters
FeedbackWords == [1..WORD_LENGTH -> FeedbackLetters]

\* a guess and a secret, to be evaluated
InitFeedback ==
    /\ NoStreamFor("evaluate")
    /\ \E secret \in FeedbackWords : game = NewGame(WordPool_from_words(<<>>), secret, 0)
    /\ \E guess \in FeedbackWords : call = [method |-> "evaluate", input |-> guess]
    /\ result = [kind |-> "none", feedback |-> <<>>]
    /\ keyboard = <<>>
    /\ NoApp
    /\ NoOrd /\ NoBoxed

\* GuessFeedback::evaluate(guess, secret)
Evaluate ==
    /\ op = "evaluate"
    /\ result.kind = "none"
    /\ result' = [kind |-> "Feedback",
                  feedback |-> GuessFeedback_evaluate(call.input, game.secret)]
    /\ UNCHANGED <<streamVars, game, call, keyboard, app>>

NextFeedback == Evaluate

SpecFeedback == InitFeedback /\ [][NextFeedback]_vars

\* Option<LetterFeedback> of a letter the HashMap has no entry for
Absent == "None"

\* HashMap::get(&c).copied()
HashMap_get(m, c) == IF c \in DOMAIN m THEN m[c] ELSE Absent

\* HashMap::insert(c, v)
HashMap_insert(m, c, v) == [x \in (DOMAIN m) \cup {c} |-> IF x = c THEN v ELSE m[x]]

\* the match of update: the state a letter gets, from its current state
\* and the feedback of one position
new_state(current, fb) ==
    CASE current = Absent                                -> fb
      [] current = "NotInWord"                           -> fb
      [] current = "WrongPosition" /\ fb = "Correct"     -> "Correct"
      [] OTHER                                           -> current

\* the loop of update taking the feedback of every position as the new state
RECURSIVE update_from_overwrites(_, _, _)
update_from_overwrites(m, feedback, i) ==
    IF i > Len(feedback.word) THEN m
    ELSE update_from_overwrites(HashMap_insert(m, feedback.word[i], feedback.feedback[i]),
                                feedback, i + 1)

\* the loop of update over the (letter, feedback) pairs from position i on
RECURSIVE update_from(_, _, _)
update_from(m, feedback, i) ==
    IF i > Len(feedback.word) THEN m
    ELSE LET c == feedback.word[i]
         IN  update_from(HashMap_insert(m, c, new_state(HashMap_get(m, c), feedback.feedback[i])),
                         feedback, i + 1)

\* KeyboardState::update
KeyboardState_update(m, feedback) == update_from(m, feedback, 1)

\* KeyboardState::get: the entry of the first char of the lowercase expansion
KeyboardState_get(m, letter) == HashMap_get(m, Head(to_lowercase(letter)))

\* KeyboardState::new, and the map after KeyboardState::clear
KeyboardState_new == <<>>

\* the guesses and secrets behind the feedbacks shown on the keyboard:
\* iiiii, i-alpha-iii, alpha-iiii, eeeee, e-i-alpha-ii
KeyWords ==
    {<<105, 105, 105, 105, 105>>, <<105, 945, 105, 105, 105>>,
     <<945, 105, 105, 105, 105>>, <<101, 101, 101, 101, 101>>,
     <<101, 105, 945, 105, 105>>}

\* the chars the keyboard is asked for
KeyChars == {73, 101, 105, 945}

InitKeyboard ==
    /\ NoStreamFor("keyboard")
    /\ NoGame
    /\ NoOrd /\ NoBoxed

\* keyboard_state.update(&feedback), for the feedback of a guess
Update ==
    /\ op = "keyboard"
    /\ \E guess \in KeyWords, secret \in KeyWords :
          LET f == GuessFeedback_evaluate(guess, secret)
          IN  /\ call' = [method |-> "update", input |-> guess]
              /\ result' = [kind |-> "Feedback", feedback |-> f]
              /\ keyboard' = KeyboardState_update(keyboard, f)
    /\ UNCHANGED <<streamVars, game, app>>

\* keyboard_state.clear()
Clear ==
    /\ op = "keyboard"
    /\ call' = [method |-> "clear", input |-> <<>>]
    /\ result' = [kind |-> "none", feedback |-> <<>>]
    /\ keyboard' = KeyboardState_new
    /\ UNCHANGED <<streamVars, game, app>>

NextKeyboard == Update \/ Clear

SpecKeyboard == InitKeyboard /\ [][NextKeyboard]_vars

----------------------------------------------------------------------------
(* The terminal front end: the typed input, and the App handling the keys *)

\* InputState::new
InputState_new == <<>>

\* InputState::push taking any char while the buffer is not full
InputState_push_any_char(buffer, c) ==
    IF Len(buffer) < WORD_LENGTH
    THEN Append(buffer, Head(to_lowercase(c)))
    ELSE buffer

\* InputState::push
InputState_push(buffer, c) ==
    IF Len(buffer) < WORD_LENGTH /\ is_alphabetic(c)
    THEN Append(buffer, Head(to_lowercase(c)))
    ELSE buffer

\* InputState::pop: String::pop, which takes nothing off an empty string
InputState_pop(buffer) ==
    IF buffer = <<>> THEN buffer ELSE SubSeq(buffer, 1, Len(buffer) - 1)

\* InputState::clear
InputState_clear(buffer) == <<>>

\* InputState::as_str
InputState_as_str(buffer) == buffer

\* InputState::is_complete
InputState_is_complete(buffer) == Len(buffer) = WORD_LENGTH

\* the chars pushed: I, e, i, U+0130, alpha, U+0307 and a space
InputChars == {73, 101, 105, 304, 945, 775, 32}

InitInput ==
    /\ NoStreamFor("input")
    /\ NoGame
    /\ NoOrd /\ NoBoxed

\* input.push(c)
Push ==
    /\ op = "input"
    /\ \E c \in InputChars :
          /\ call' = [method |-> "push", input |-> <<c>>]
          /\ app' = [app EXCEPT !.input = InputState_push(@, c)]
    /\ UNCHANGED <<streamVars, game, result, keyboard>>

\* input.pop()
Pop ==
    /\ op = "input"
    /\ call' = [method |-> "pop", input |-> <<>>]
    /\ app' = [app EXCEPT !.input = InputState_pop(@)]
    /\ UNCHANGED <<streamVars, game, result, keyboard>>

\* input.clear()
ClearInput ==
    /\ op = "input"
    /\ call' = [method |-> "clear", input |-> <<>>]
    /\ app' = [app EXCEPT !.input = InputState_clear(@)]
    /\ UNCHANGED <<streamVars, game, result, keyboard>>

NextInput == Push \/ Pop \/ ClearInput

SpecInput == InitInput /\ [][NextInput]_vars

\* KeyEvent: the code of the key, its char if it is a Char, and whether
\* CONTROL is among its modifiers
Key(code, c, ctrl) == [code |-> code, c |-> c, ctrl |-> ctrl]

\* no guess was submitted
NoResult == [kind |-> "none", feedback |-> <<>>]

\* App::new, the secret being the word Game::new draws from the pool; with
\* the fields of the App, the result of the last game.guess of submit_guess
App_new(word_pool, secret) ==
    [game |-> NewGame(word_pool, secret, MAX_GUESSES),
     word_pool |-> word_pool,
     input |-> InputState_new,
     keyboard_state |-> KeyboardState_new,
     message |-> "None",
     should_quit |-> FALSE,
     result |-> NoResult]

\* App::submit_guess with every outcome of the guess other than Accepted
\* answered by the message alone, the game kept as game.guess left it
App_submit_guess_always_clears(s) ==
    LET r == Game_guess(s.game, InputState_as_str(s.input))
        t == [s EXCEPT !.game = r.game, !.result = r.result]
    IN  CASE r.result.kind = "Accepted" ->
                [t EXCEPT !.keyboard_state = KeyboardState_update(@, r.result.feedback),
                          !.input = InputState_clear(@)]
          [] r.result.kind = "NotInWordList" ->
                [t EXCEPT !.message = "Not in word list", !.input = InputState_clear(@)]
          [] r.result.kind = "InvalidInput" -> [t EXCEPT !.message = "Invalid input"]
          [] r.result.kind = "GameOver" -> [t EXCEPT !.message = "Game is over"]

\* App::submit_guess
App_submit_guess(s) ==
    LET r == Game_guess(s.game, InputState_as_str(s.input))
        t == [s EXCEPT !.game = r.game, !.result = r.result]
    IN  CASE r.result.kind = "Accepted" ->
                [t EXCEPT !.keyboard_state = KeyboardState_update(@, r.result.feedback),
                          !.input = InputState_clear(@)]
          [] r.result.kind = "NotInWordList" -> [t EXCEPT !.message = "Not in word list"]
          [] r.result.kind = "InvalidInput" -> [t EXCEPT !.message = "Invalid input"]
          [] r.result.kind = "GameOver" -> [t EXCEPT !.message = "Game is over"]

\* App::new_game leaving the keyboard state as it is
App_new_game_keeps_keyboard(s, secret) ==
    [s EXCEPT !.game = NewGame(s.word_pool, secret, MAX_GUESSES),
              !.input = InputState_clear(@),
              !.message = "None"]

\* App::new_game, the secret being the word Game::new draws from the pool
App_new_game(s, secret) ==
    [s EXCEPT !.game = NewGame(s.word_pool, secret, MAX_GUESSES),
              !.input = InputState_clear(@),
              !.keyboard_state = KeyboardState_new,
              !.message = "None"]

\* App::handle_playing_key submitting the input on Enter whatever its length
App_handle_playing_key_submits_any(s, key) ==
    CASE key.code = "Char" /\ is_alphabetic(key.c) ->
            [s EXCEPT !.input = InputState_push(@, key.c)]
      [] key.code = "Backspace" -> [s EXCEPT !.input = InputState_pop(@)]
      [] key.code = "Enter" -> App_submit_guess(s)
      [] OTHER -> s

\* App::handle_playing_key
App_handle_playing_key(s, key) ==
    CASE key.code = "Char" /\ is_alphabetic(key.c) ->
            [s EXCEPT !.input = InputState_push(@, key.c)]
      [] key.code = "Backspace" -> [s EXCEPT !.input = InputState_pop(@)]
      [] key.code = "Enter" ->
            IF InputState_is_complete(s.input)
            THEN App_submit_guess(s)
            ELSE [s EXCEPT !.message = "Not enough letters"]
      [] OTHER -> s

\* App::handle_game_over_key
App_handle_game_over_key(s, key, secret) ==
    IF key.code = "Enter" THEN App_new_game(s, secret) ELSE s

\* App::handle_key
App_handle_key(s, key, secret) ==
    LET t == [s EXCEPT !.message = "None", !.result = NoResult]
    IN  IF key.code = "Esc" \/ (key.code = "Char" /\ key.c = 99 /\ key.ctrl)
        THEN [t EXCEPT !.should_quit = TRUE]
        ELSE IF Game_state(t.game) = Playing
             THEN App_handle_playing_key(t, key)
             ELSE App_handle_game_over_key(t, key, secret)

\* App::handle_event
App_handle_event(s, event, secret) ==
    IF event.kind = "Key" THEN App_handle_key(s, event.key, secret)
    ELSE [s EXCEPT !.result = NoResult]

\* the keys pressed: I, i, alpha, U+0130, U+0307, Ctrl-c, Backspace, Enter,
\* Esc and Tab
Keys ==
    {Key("Char", c, FALSE) : c \in {73, 105, 304, 945, 775}} \cup
    {Key("Char", 99, TRUE), Key("Backspace", 0, FALSE), Key("Enter", 0, FALSE),
     Key("Esc", 0, FALSE), Key("Tab", 0, FALSE)}

\* the events read: the keys, and a resize of the terminal
Events == {[kind |-> "Key", key |-> k] : k \in Keys} \cup
          {[kind |-> "Resize", key |-> Key("none", 0, FALSE)]}

\* no event was read yet
NoEvent == [kind |-> "none", key |-> Key("none", 0, FALSE)]

\* the App as one record: its fields and the result of the last game.guess
AppState ==
    [game |-> game, word_pool |-> app.word_pool, input |-> app.input,
     keyboard_state |-> keyboard, message |-> app.message,
     should_quit |-> app.should_quit, result |-> result]

\* the variables hold the App s
AppIs(s) ==
    /\ game = s.game
    /\ keyboard = s.keyboard_state
    /\ result = s.result
    /\ app = [input |-> s.input, message |-> s.message,
              should_quit |-> s.should_quit, word_pool |-> s.word_pool]

\* run: App::new over a word pool that is not empty
InitApp ==
    /\ NoStreamFor("run")
    /\ \E strings \in PoolStrings :
          LET pool == WordPool_from_strings(strings)
          IN  \E n \in 1..Len(pool.words) : AppIs(App_new(pool, pool.words[n]))
    /\ call = [method |-> "none", input |-> NoEvent]
    /\ NoOrd /\ NoBoxed

\* the words Game::new can draw from the pool; while the game is played no
\* word is drawn
Draws == IF Game_state(game) = Playing THEN {1} ELSE 1..Len(app.word_pool.words)

\* one turn of the loop of run_app that reads an event: app.handle_event(event);
\* the loop ends once should_quit is set
HandleEvent ==
    /\ op = "run"
    /\ ~app.should_quit
    /\ \E event \in Events, n \in Draws :
          LET s == App_handle_event(AppState, event, app.word_pool.words[n])
          IN  /\ call' = [method |-> "handle_event", input |-> event]
              /\ game' = s.game
              /\ keyboard' = s.keyboard_state
              /\ result' = s.result
              /\ app' = [input |-> s.input, message |-> s.message,
                         should_quit |-> s.should_quit, word_pool |-> s.word_pool]
    /\ UNCHANGED streamVars

NextApp == HandleEvent

SpecApp == InitApp /\ [][NextApp]_vars

----------------------------------------------------------------------------
(* The CSV source: the records of the content parsed, the first field of  *)
(* each taken, trimmed and kept unless empty, then sorted and streamed    *)

\* the delimiter and the quote of csv::ReaderBuilder::new()
Comma == 44

Quote == 34

\* the records of csv_reader.records() before their lengths are compared:
\* the reader of the csv crate, char by char.  st is where the reader is:
\* at the start of a record, at the start of a field, in an unquoted field,
\* in a quoted field, or after a quote met in a quoted field.  An empty line
\* is no record; a quote opens a quoted field at the start of a field only;
\* in a quoted field the delimiter and the line feed are data and a doubled
\* quote is a quote; the end of the content ends a record begun.
RECURSIVE csv_parse(_, _, _, _, _)
csv_parse(content, st, field, fields, records) ==
    IF content = <<>>
    THEN IF st = "start_record" THEN records ELSE Append(records, Append(fields, field))
    ELSE LET c    == Head(content)
             rest == Tail(content)
             end_field  == csv_parse(rest, "start_field", <<>>, Append(fields, field), records)
             end_record == csv_parse(rest, "start_record", <<>>, <<>>,
                                     Append(records, Append(fields, field)))
             add(st2)   == csv_parse(rest, st2, Append(field, c), fields, records)
         IN  CASE st = "start_record" /\ c = Newline ->
                    csv_parse(rest, "start_record", <<>>, <<>>, records)
               [] st \in {"start_record", "start_field"} /\ c = Quote ->
                    csv_parse(rest, "quoted", field, fields, records)
               [] st = "quoted" /\ c = Quote ->
                    csv_parse(rest, "after_quote", field, fields, records)
               [] st = "quoted" /\ c # Quote -> add("quoted")
               [] st = "after_quote" /\ c = Quote -> add("quoted")
               [] st # "quoted" /\ c = Comma -> end_field
               [] st # "quoted" /\ c = Newline -> end_record
               [] OTHER -> add("unquoted")

\* csv_reader.records(): a record is Ok unless it has another number of
\* fields than the first record (the reader is not flexible)
csv_records(content) ==
    LET records == csv_parse(content, "start_record", <<>>, <<>>, <<>>)
    IN  [k \in 1..Len(records) |->
            [ok |-> Len(records[k]) = Len(records[1]), fields |-> records[k]]]

\* io::Error::new(io::ErrorKind::InvalidData, e), 22 being the id of the kind
InvalidData == Err(22)

\* the loop of from_csv that ends at a record in error and returns a stream
\* of the words read so far
RECURSIVE from_csv_records_stops_quietly(_, _, _)
from_csv_records_stops_quietly(results, n, words) ==
    IF n > Len(results) \/ ~results[n].ok
    THEN Loaded(WordStream(UnsortedWords(Vec_sort(words))))
    ELSE IF trim(results[n].fields[1]) = <<>>
    THEN from_csv_records_stops_quietly(results, n + 1, words)
    ELSE from_csv_records_stops_quietly(results, n + 1,
                                        Append(words, trim(results[n].fields[1])))

\* the loop of from_csv over the records from position n on: `?` returns
\* the error of a record as InvalidData; the first field is trimmed and
\* pushed unless it is empty; at the end the words are sorted and streamed
RECURSIVE from_csv_records(_, _, _)
from_csv_records(results, n, words) ==
    IF n > Len(results) THEN Loaded(WordStream(UnsortedWords(Vec_sort(words))))
    ELSE IF ~results[n].ok THEN LoadFailed(InvalidData)
    ELSE IF trim(results[n].fields[1]) = <<>>
    THEN from_csv_records(results, n + 1, words)
    ELSE from_csv_records(results, n + 1, Append(words, trim(results[n].fields[1])))

from_csv(content) == from_csv_records(csv_records(content), 1, <<>>)

from_csv_zstd(file) == from_csv(zstd_decode(file))

\* the lines the CSV contents are made of, each with the first field and
\* the number of fields it is written to have (n = 0: an empty line):
\* i,I   I,i   _i_,i   ,i   _,i   "i,I",i   i   and the empty line
CsvLines ==
    {[text |-> <<105, Comma, 73>>, first |-> <<105>>, n |-> 2],
     [text |-> <<73, Comma, 105>>, first |-> <<73>>, n |-> 2],
     [text |-> <<32, 105, 32, Comma, 105>>, first |-> <<32, 105, 32>>, n |-> 2],
     [text |-> <<Comma, 105>>, first |-> <<>>, n |-> 2],
     [text |-> <<32, Comma, 105>>, first |-> <<32>>, n |-> 2],
     [text |-> <<Quote, 105, Comma, 73, Quote, Comma, 105>>, first |-> <<105, Comma, 73>>, n |-> 2],
     [text |-> <<105>>, first |-> <<105>>, n |-> 1],
     [text |-> <<>>, first |-> <<>>, n |-> 0]}

\* the content of a CSV file with the given lines
RECURSIVE csv_content(_)
csv_content(lines) ==
    IF lines = <<>> THEN <<>>
    ELSE Head(lines).text \o <<Newline>> \o csv_content(Tail(lines))

CsvLoaders == {"from_csv", "from_csv_zstd"}

InitCsv ==
    /\ input \in SeqsOver(CsvLines, MaxItems)
    /\ input2 = <<>>
    /\ op \in CsvLoaders
    /\ stages = <<>>
    /\ stream = VecIter(<<>>)
    /\ out = <<>>
    /\ status = "loading"
    /\ sink = EmptySink
    /\ NoOrd /\ NoBoxed /\ NoGame

\* the call of from_csv or from_csv_zstd: it returns a stream or an error
LoadCsv ==
    /\ status = "loading"
    /\ op \in CsvLoaders
    /\ LET res == IF op = "from_csv" THEN from_csv(csv_content(input))
                  ELSE from_csv_zstd(zstd_encode(csv_content(input)))
       IN  /\ stream' = res.stream
           /\ status' = IF res.kind = "Ok" THEN "running" ELSE "err"
           /\ sink' = [sink EXCEPT !.err = res.err]
    /\ UNCHANGED <<a, b, ab, ba, input, input2, op, stages, out, bstream, bout, bstatus,
                   game, call, result, keyboard, app>>

NextCsv == LoadCsv \/ Step

SpecCsv == InitCsv /\ [][NextCsv]_vars

----------------------------------------------------------------------------
(* Vocabulary of the properties *)

IsOk(x) == x.kind = "Ok"

\* the words of the Ok items of a sequence of items, in order
OkWords(seq) ==
    LET oks == SelectSeq(seq, IsOk)
    IN  [i \in 1..Len(oks) |-> oks[i].w]

OkOnly(seq) == \A i \in 1..Len(seq) : seq[i].kind = "Ok"

\* a sequence of words is non-decreasing under case_fold_cmp
SortedWords(ws) ==
    \A i \in 1..(Len(ws) - 1) : case_fold_cmp(ws[i], ws[i + 1]) # "Greater"

\* the first position k where seq[k], seq[k+1] are both Ok and out of order; 0 if none
FirstBad(seq) ==
    LET bad == {k \in 1..(Len(seq) - 1) :
                    /\ seq[k].kind = "Ok" /\ seq[k + 1].kind = "Ok"
                    /\ case_fold_cmp(seq[k].w, seq[k + 1].w) = "Greater"}
    IN  IF bad = {} THEN 0 ELSE CHOOSE k \in bad : \A j \in bad : k <= j

\* what the source behind from_sorted_reader yields
Upstream == Drain(SortedLines(input))

\* a sequence as a bag
SeqToBag(seq) ==
    [x \in {seq[i] : i \in 1..Len(seq)} |-> Cardinality({i \in 1..Len(seq) : seq[i] = x})]

LowerForms(ws) == {str_to_lowercase(ws[i]) : i \in 1..Len(ws)}

\* s is the beginning of t
IsPrefix(s, t) == Len(s) <= Len(t) /\ s = SubSeq(t, 1, Len(s))

\* the items of seq at the positions of the set idx, in their order
ItemsAt(seq, idx) ==
    [i \in 1..Cardinality(idx) |->
        seq[CHOOSE k \in idx : Cardinality({j \in idx : j <= k}) = i]]

\* the position of the last Ok item of seq before position k; 0 if there is none
PrevOk(seq, k) ==
    LET oks == {j \in 1..(k - 1) : seq[j].kind = "Ok"}
    IN  IF oks = {} THEN 0 ELSE CHOOSE j \in oks : \A m \in oks : m <= j

\* the positions a dedup lets through: every Err, and every Ok item that is
\* the first Ok item or differs in lowercase form from the Ok item before it,
\* errors in between or not
DedupKept(seq) ==
    {k \in 1..Len(seq) :
        \/ seq[k].kind = "Err"
        \/ PrevOk(seq, k) = 0
        \/ str_to_lowercase(seq[k].w) # str_to_lowercase(seq[PrevOk(seq, k)].w)}

\* the predicate of the filter pipelines
PredOf(o) == IF o = "filter" THEN "chars_count" ELSE "alphabetic"

\* the positions a filter lets through: every Err, every Ok item that satisfies
FilterKept(seq, pred) ==
    {k \in 1..Len(seq) : seq[k].kind = "Err" \/ Predicate(pred, seq[k].w)}

IsErr(x) == x.kind = "Err"

\* the Err items of a sequence of items, in order
ErrItems(seq) == SelectSeq(seq, IsErr)

\* s is made of the items of x and of y, each in its own order
RECURSIVE IsInterleaving(_, _, _)
IsInterleaving(s, x, y) ==
    IF s = <<>> THEN x = <<>> /\ y = <<>>
    ELSE \/ (x # <<>> /\ Head(s) = Head(x) /\ IsInterleaving(Tail(s), Tail(x), y))
         \/ (y # <<>> /\ Head(s) = Head(y) /\ IsInterleaving(Tail(s), x, Tail(y)))

\* a chain none of whose transforms drops an item
DropsNothing(c) == \A i \in 1..Len(c) : c[i] \in {"to_lowercase", "merge"}

\* the position of the first Err item of a sequence of items; 0 if there is none
FirstErr(seq) ==
    LET errs == {k \in 1..Len(seq) : seq[k].kind = "Err"}
    IN  IF errs = {} THEN 0 ELSE CHOOSE k \in errs : \A j \in errs : k <= j

\* the elements of a sequence
Range(seq) == {seq[i] : i \in 1..Len(seq)}

\* a file that holds the given words, one per line
RECURSIVE OnePerLine(_)
OnePerLine(ws) ==
    IF ws = <<>> THEN <<>> ELSE Head(ws) \o <<Newline>> \o OnePerLine(Tail(ws))

\* the lines of a readable input, trimmed, the blank ones left out
RECURSIVE TrimmedNonBlank(_)
TrimmedNonBlank(lines) ==
    IF lines = <<>> THEN <<>>
    ELSE (IF trim(Head(lines).w) = <<>> THEN <<>> ELSE <<trim(Head(lines).w)>>)
         \o TrimmedNonBlank(Tail(lines))

\* how many items have been taken out of a peekable iterator over a vector:
\* an item that was only peeked is still its head
Consumed(p) ==
    p.inner.pos - (IF p.peeked.has /\ p.peeked.item.kind # "None" THEN 1 ELSE 0)

\* the head of an input of which n items have been taken
HeadAfter(items, n) == IF n < Len(items) THEN items[n + 1] ELSE None

\* the heads of the two inputs of the merge, and what has been taken of each
LeftTaken == Consumed(stream.left)

RightTaken == Consumed(stream.right)

LeftHead == HeadAfter(input, LeftTaken)

RightHead == HeadAfter(input2, RightTaken)

\* the merge emits its left head / its right head, and takes nothing else
EmitsLeft ==
    /\ out' = Append(out, LeftHead)
    /\ LeftTaken' = LeftTaken + 1 /\ RightTaken' = RightTaken

EmitsRight ==
    /\ out' = Append(out, RightHead)
    /\ RightTaken' = RightTaken + 1 /\ LeftTaken' = LeftTaken

----------------------------------------------------------------------------
(* Claims *)

\* C1: a WordStream iterated directly panics exactly when its upstream yields
\* two Ok items back-to-back that are out of order: it yields the upstream's
\* items unchanged up to the item before the pair, never the pair's second
\* item, never an extra Err; without such a pair it never panics and yields
\* everything.
C1_PanicsExactlyOnUnsortedPair ==
    op = "iter" =>
        LET up == Upstream
            k  == FirstBad(up)
        IN  /\ Len(out) <= Len(up)
            /\ out = SubSeq(up, 1, Len(out))
            /\ (k # 0 => Len(out) < k)
            /\ (status = "panicked" => k # 0 /\ Len(out) = k - 1)
            /\ (status = "exhausted" => k = 0 /\ out = up)

\* C1 witness: the iteration panicked after it had yielded an item
C1_Witness ==
    op = "iter" /\ status = "panicked" /\ Len(out) > 0

\* C2 (as claimed): a stream from from_sorted_reader over readable lines that
\* hold an out-of-order pair never finishes a drain successfully, whichever
\* way it is drained.
C2_UnsortedSourceNeverDrainsClean ==
    (OkOnly(input) /\ status \in {"exhausted", "ok"}) => FirstBad(Upstream) = 0

\* C3: MergeStream over two sorted Ok-only inputs yields a sorted sequence,
\* and at its end the bag of the yielded items is the bag union of the inputs.
C3_MergeSortedAndComplete ==
    (/\ OkOnly(input) /\ OkOnly(input2)
     /\ SortedWords(OkWords(input)) /\ SortedWords(OkWords(input2)))
    => /\ OkOnly(out)
       /\ SortedWords(OkWords(out))
       /\ status # "panicked"
       /\ (status = "exhausted" => SeqToBag(out) = SeqToBag(input) (+) SeqToBag(input2))

\* C3 witness: a finished merge of two sorted two-item inputs that interleave
C3_Witness ==
    /\ status = "exhausted"
    /\ OkOnly(input) /\ OkOnly(input2)
    /\ SortedWords(OkWords(input)) /\ SortedWords(OkWords(input2))
    /\ Len(input) = 2 /\ Len(input2) = 2
    /\ out = <<input2[1], input[1], input2[2], input[2]>>
    /\ input[1] = input2[2]

\* C4 (as claimed): dedup of a sorted Ok-only input yields pairwise distinct
\* lowercase forms, one item for every lowercase form of the input, and that
\* item is the first input item with that lowercase form.
C4_DedupOnePerLowercaseForm ==
    (/\ op = "dedup" /\ status = "exhausted"
     /\ OkOnly(input) /\ SortedWords(OkWords(input)))
    => LET o == OkWords(out)
           i == OkWords(input)
       IN  /\ \A j, k \in 1..Len(o) :
                 j # k => str_to_lowercase(o[j]) # str_to_lowercase(o[k])
           /\ LowerForms(o) = LowerForms(i)
           /\ \A j \in 1..Len(o) : \E m \in 1..Len(i) :
                 /\ o[j] = i[m]
                 /\ \A n \in 1..(m - 1) : str_to_lowercase(i[n]) # str_to_lowercase(i[m])

\* C5 (as claimed): to_lowercase applied to a sorted stream never triggers the
\* not-sorted fault, and what it yields is sorted.
C5_LowercaseKeepsSorted ==
    (op = "to_lowercase" /\ SortedWords(OkWords(input)))
    => status # "panicked" /\ SortedWords(OkWords(out))

\* C6: case_fold_cmp is a total order: a text equals itself, Less one way is
\* Greater the other way, Equal is symmetric, and Less is transitive.
C6_TotalOrder ==
    ab # "none" =>
        /\ ab \in {"Less", "Equal", "Greater"}
        /\ (a = b => ab = "Equal")
        /\ (ab = "Less" <=> ba = "Greater")
        /\ (ab = "Equal" => ba = "Equal")
        /\ \A c \in Texts :
              (ab = "Less" /\ case_fold_cmp(b, c) = "Less") => case_fold_cmp(a, c) = "Less"

\* C6 witness: two different texts compared, one Less than the other
C6_Witness ==
    ab = "Less" /\ ba = "Greater" /\ Len(a) = 2 /\ Len(b) = 2

\* C7 (as claimed): when the lowercase expansions of two texts differ,
\* case_fold_cmp is the lexicographic comparison of the two expansions.
C7_CmpIsLowercaseLexOrder ==
    (ab # "none" /\ str_to_lowercase(a) # str_to_lowercase(b))
    => ab = LexCmp(str_to_lowercase(a), str_to_lowercase(b))

C9_YieldedOkItemsSorted ==
    (op = "iter" /\ status = "exhausted") => SortedWords(OkWords(out))

\* C10 (as claimed): the boxed pipeline and the typed pipeline over the same
\* items yield the same items and panic in the same runs.
C10_BoxedEquivalentToTyped ==
    (status \in {"exhausted", "panicked"} /\ bstatus \in {"exhausted", "panicked"})
    => bout = out /\ bstatus = status

\* C11: a MergeStream whose left head is Err emits that Err next; otherwise,
\* when its right head is Err, it emits that one next, before a left Ok head;
\* emitting the error takes exactly one item from the side in error and none
\* from the other side.
C11_MergeEmitsErrorHeadFirst ==
    [][ (op = "merge_raw" /\ status = "running") =>
            /\ (LeftHead.kind = "Err" => EmitsLeft)
            /\ ((LeftHead.kind # "Err" /\ RightHead.kind = "Err") => EmitsRight) ]_vars

\* C11 witness: the right Err came out while the left Ok head stayed where it was
C11_Witness ==
    /\ op = "merge_raw"
    /\ Len(input) = 2 /\ input[1].kind = "Ok"
    /\ Len(input2) = 2 /\ input2[1].kind = "Err"
    /\ out = <<input2[1]>>
    /\ LeftTaken = 0 /\ RightTaken = 1

\* C12: MergeStream takes its items from the heads only, so the items of each
\* input come out in their original order; and when both heads are Ok and the
\* left one is not Greater than the right one (Equal included), the left one
\* is emitted first.
C12_MergeStableLeftBiased ==
    [][ (op = "merge_raw" /\ status = "running") =>
            /\ (EmitsLeft \/ EmitsRight
                  \/ (LeftHead = None /\ RightHead = None /\ out' = out))
            /\ ((/\ LeftHead.kind = "Ok" /\ RightHead.kind = "Ok"
                 /\ case_fold_cmp(LeftHead.w, RightHead.w) # "Greater") => EmitsLeft) ]_vars

\* C12 witness: both heads were the same word, and the left one was emitted
C12_Witness ==
    /\ op = "merge_raw"
    /\ Len(input) = 2 /\ Len(input2) = 2
    /\ input[1].kind = "Ok" /\ input[1] = input2[1]
    /\ out = <<input[1]>>
    /\ LeftTaken = 1 /\ RightTaken = 0

\* C13: DedupStream hands every Err on unchanged, and an Err neither resets nor
\* replaces the baseline of the comparison: an Ok item is dropped exactly when
\* its lowercase form is that of the last Ok item before it, an Err in between
\* or not.
C13_DedupBaselineAcrossErr ==
    op = "dedup" =>
        LET expected == ItemsAt(input, DedupKept(input))
        IN  /\ IsPrefix(bout, expected)
            /\ bstatus # "panicked"
            /\ (bstatus = "exhausted" => bout = expected)
            /\ IsPrefix(out, expected)
            /\ (status = "exhausted" => out = expected)

\* C13 witness: the case variant after the Err was dropped, the Err was not
C13_Witness ==
    /\ op = "dedup" /\ bstatus = "exhausted" /\ status = "exhausted"
    /\ Len(input) = 3
    /\ input[1].kind = "Ok" /\ input[2].kind = "Err" /\ input[3].kind = "Ok"
    /\ input[1] # input[3]
    /\ bout = <<input[1], input[2]>>
    /\ out = bout

\* C14: what a FilterStream yields is the input without the Ok items that
\* fail the predicate, every Err kept, in the input's order; the predicate is
\* called once for each Ok item, in order, and never for an Err.
C14_FilterExactSubsequence ==
    op \in {"filter", "filter_alphabetic"} =>
        LET expected == ItemsAt(input, FilterKept(input, PredOf(op)))
            bcalls   == bstream.inner.calls
            calls    == stream.inner.inner.calls
        IN  /\ IsPrefix(bout, expected)
            /\ bstatus # "panicked"
            /\ IsPrefix(bcalls, OkWords(input))
            /\ (bstatus = "exhausted" => bout = expected /\ bcalls = OkWords(input))
            /\ IsPrefix(out, expected)
            /\ IsPrefix(calls, OkWords(input))
            /\ (status = "exhausted" => out = expected /\ calls = OkWords(input))

\* C14 witness: an Ok item was dropped, the Err after it and the Ok item after
\* that came through
C14_Witness ==
    /\ op = "filter" /\ bstatus = "exhausted" /\ status = "exhausted"
    /\ Len(input) = 3
    /\ input[1].kind = "Ok" /\ input[2].kind = "Err" /\ input[3].kind = "Ok"
    /\ bout = <<input[2], input[3]>>
    /\ out = bout
    /\ bstream.inner.calls = <<input[1].w, input[3].w>>

\* C15: through WordStream and every chain of filter, to_lowercase, dedup and
\* merge, the Err items of the sources come out unchanged, each once, in the
\* order of their source: at any moment the errors yielded so far are the
\* first errors of the sources, and a run that reaches the end has yielded
\* them all, with the items that followed them (all of them, where no
\* transform of the chain drops items).
C15_ErrorsPassEveryStage ==
    LET e1 == ErrItems(input)
        e2 == ErrItems(input2)
        eo == ErrItems(out)
    IN  /\ \E i \in 0..Len(e1), j \in 0..Len(e2) :
              IsInterleaving(eo, SubSeq(e1, 1, i), SubSeq(e2, 1, j))
        /\ (status = "exhausted" =>
              /\ IsInterleaving(eo, e1, e2)
              /\ (DropsNothing(stages) => Len(out) = Len(input) + Len(input2)))
        /\ (op = "boxed_chain" => status # "panicked")

\* C15 witness: two different errors, an Ok item after them, a chain of two
\* transforms, all of it yielded
C15_Witness ==
    /\ op = "typed_chain" /\ status = "exhausted"
    /\ stages = <<"to_lowercase", "dedup">>
    /\ Len(input) = 3
    /\ input[1] = Err(2) /\ input[2] = Err(1) /\ input[3].kind = "Ok"
    /\ Len(out) = 3 /\ out[1] = Err(2) /\ out[2] = Err(1) /\ out[3].kind = "Ok"

\* C16: collect_to_set returns Err with the first Err item of the stream, and
\* has then pulled the items up to that one and not one more (the reader is
\* at the line after the failed one); it returns Ok only for a stream without
\* an Err, and the set then holds exactly the distinct texts of the items.
C16_CollectStopsAtFirstErr ==
    op = "collect_to_set" =>
        LET up == Upstream
            k  == FirstErr(up)
        IN  /\ status # "panicked"
            /\ (status = "err" =>
                  /\ k # 0 /\ sink.err = up[k]
                  /\ out = SubSeq(up, 1, k)
                  /\ stream.inner.pos = FirstErr(input) /\ ~stream.peeked.has)
            /\ (status = "ok" =>
                  /\ k = 0 /\ sink.err = None
                  /\ Range(sink.set) = Range(OkWords(up))
                  /\ Len(sink.set) = Cardinality(Range(OkWords(up))))

\* C16 witness: the collect ended at an Err that had a line before it and a
\* line after it
C16_Witness ==
    /\ op = "collect_to_set" /\ status = "err"
    /\ Len(input) = 3
    /\ input[1].kind = "Ok" /\ input[2].kind = "Err" /\ input[3].kind = "Ok"
    /\ out = <<Ok(trim(input[1].w)), input[2]>>
    /\ trim(input[3].w) # <<>>

\* C17: write_to_writer / write_to_file writes every Ok item as a line of its
\* own, in the order of the stream; at the first Err it pulls no more, returns
\* that error and leaves what it wrote: the lines of the Ok items before the
\* error, nothing of what follows; without an Err the output is all the items,
\* one per line.
C17_WriteStopsAtFirstErrNoRollback ==
    op \in WriteModes =>
        LET up == Upstream
            k  == FirstErr(up)
        IN  /\ status # "panicked"
            /\ sink.file = OnePerLine(OkWords(out))
            /\ (status = "err" =>
                  /\ k # 0 /\ sink.err = up[k]
                  /\ out = SubSeq(up, 1, k)
                  /\ sink.file = OnePerLine(OkWords(SubSeq(up, 1, k - 1)))
                  /\ stream.inner.pos = FirstErr(input) /\ ~stream.peeked.has)
            /\ (status = "ok" =>
                  /\ k = 0 /\ sink.err = None
                  /\ sink.file = OnePerLine(OkWords(up)))

\* C17 witness: the write ended at an Err; the line of the word before it is
\* in the output, the word after it is not
C17_Witness ==
    /\ op = "write_to_file" /\ status = "err"
    /\ Len(input) = 3
    /\ input[1].kind = "Ok" /\ input[2].kind = "Err" /\ input[3].kind = "Ok"
    /\ trim(input[3].w) # <<>>
    /\ sink.file = trim(input[1].w) \o <<Newline>>
    /\ Len(sink.file) > 1

\* C18 (as claimed): a word collection written with write_to_file or
\* write_to_zst_file and read back with the matching sorted source comes back
\* whole and in the collection's order, with no Err and no not-sorted fault,
\* upper-case and mixed-case words included.
C18_RoundTripSameWords ==
    op \in {"from_sorted_file", "from_sorted_zst_file"} =>
        /\ status # "panicked"
        /\ OkOnly(out)
        /\ IsPrefix(OkWords(out), sink.set)
        /\ (status = "exhausted" => OkWords(out) = sink.set)

\* C19: over readable lines in any order, an unsorted loader returns a stream
\* that yields only Ok items, non-decreasing under case_fold_cmp, never hits
\* the not-sorted fault when iterated, and at its end has yielded exactly the
\* trimmed non-blank lines, repeated lines and case variants as often as they
\* occur.
C19_UnsortedLoaderSortsAll ==
    (op \in Loaders /\ OkOnly(input) /\ status # "loading") =>
        /\ status \notin {"err", "panicked"}
        /\ OkOnly(out)
        /\ SortedWords(OkWords(out))
        /\ (status = "exhausted" =>
              SeqToBag(OkWords(out)) = SeqToBag(TrimmedNonBlank(input)))

\* C19 witness: three lines out of order, one word twice and a case variant
\* of it, loaded by from_txt and yielded in order
C19_Witness ==
    /\ op = "from_txt" /\ status = "exhausted"
    /\ OkOnly(input) /\ Len(input) = 3
    /\ ~SortedWords(TrimmedNonBlank(input))
    /\ Len(out) = 3
    /\ out[2] = out[3]
    /\ out[1] # out[2]
    /\ str_to_lowercase(out[1].w) = str_to_lowercase(out[2].w)

\* C20 (as claimed): when a line of the input cannot be read, the loader
\* returns that error, and no stream.
C20_LoaderReturnsReadError ==
    (op \in Loaders /\ ~OkOnly(input) /\ status # "loading") =>
        /\ status = "err"
        /\ sink.err = input[FirstErr(input)]

\* C21 (as claimed): the entries of a word collection, in the order of its
\* iteration, are non-decreasing under case_fold_cmp, mixed-case entries
\* included.
C21_WordSetOrderedByCollation ==
    (op = "word_set" /\ status # "collecting") => SortedWords(sink.set)

\* C22 (as claimed): the stream of from_word_set never hits the not-sorted
\* fault, yields Ok items only, and at its end has yielded every word of the
\* set once, in the set's order.
C22_FromWordSetInfallible ==
    (op = "word_set" /\ status \in {"running", "exhausted", "panicked"}) =>
        /\ status # "panicked"
        /\ OkOnly(out)
        /\ IsPrefix(OkWords(out), sink.set)
        /\ (status = "exhausted" => OkWords(out) = sink.set)

\* C23: two word collections are equal exactly when the sequences they were
\* built from hold the same distinct texts, in whatever order and however
\* often; len() is the number of distinct texts; contains(s) holds exactly
\* for the texts put in.
C23_WordSetIsSetOfTexts ==
    (op = "word_set" /\ status # "collecting") =>
        /\ (sink.set = sink.set2 <=> Range(TextsOf(input)) = Range(TextsOf(input2)))
        /\ WordSet_len(sink.set) = Cardinality(Range(TextsOf(input)))
        /\ WordSet_len(sink.set2) = Cardinality(Range(TextsOf(input2)))
        /\ (ab # "none" => (ab = "true" <=> a \in Range(TextsOf(input))))

\* C23 witness: a text put in twice and another one, the second collection
\* built in the other order; the collections are equal, of two entries, and
\* contains found the repeated text
C23_Witness ==
    /\ op = "word_set" /\ status = "collected"
    /\ Len(input) = 3 /\ input[1] = input[3] /\ input[1] # input[2]
    /\ input2 = <<input[2], input[1]>>
    /\ sink.set = sink.set2 /\ WordSet_len(sink.set) = 2
    /\ a = input[1].w /\ ab = "true"

\* the words of an input file that pass the two filters of the processing
PassFilters(items) ==
    {items[i].w : i \in {k \in 1..Len(items) :
        Predicate("five_chars", items[k].w) /\ Predicate("alphabetic", items[k].w)}}

\* a sequence of words is strictly increasing under case_fold_cmp
StrictlySortedWords(ws) ==
    \A i \in 1..(Len(ws) - 1) : case_fold_cmp(ws[i], ws[i + 1]) = "Less"

\* C24 (as claimed): the processing of the input files ends without an error
\* or a fault, and what it has written is strictly increasing under
\* case_fold_cmp, all lowercase, without duplicates, and holds exactly the
\* lowercase forms of the input words that pass the two filters.
C24_CleanPipelineStrictlySorted ==
    (stages = <<"process_output">> /\ status # "running") =>
        /\ status = "ok"
        /\ OkOnly(out)
        /\ sink.file = OnePerLine(OkWords(out))
        /\ StrictlySortedWords(OkWords(out))
        /\ \A i \in 1..Len(out) : str_to_lowercase(out[i].w) = out[i].w
        /\ Cardinality(Range(OkWords(out))) = Len(out)
        /\ Range(OkWords(out)) =
              {str_to_lowercase(w) : w \in PassFilters(input) \cup PassFilters(input2)}

\* the last entry of guesses() is a guess of the secret
LastIsSecret(g) == g.guesses # <<>> /\ g.guesses[Len(g.guesses)].word = g.secret

\* the state a game is in by its accepted guesses: Won with their number if
\* the last one is the secret, Lost if max_guesses were accepted and the last
\* one is not the secret, Playing otherwise
StateByGuesses(g) ==
    IF LastIsSecret(g) THEN Won(Len(g.guesses))
    ELSE IF Len(g.guesses) = g.config.max_guesses THEN Lost
    ELSE Playing

\* the last call was guess with a text that is not a word
Unparsable(c) == c.method = "guess" /\ ~Word_parse(c.input).some

\* C25 (as claimed): the state is Won with the number of accepted guesses iff
\* the last accepted guess is the secret, Lost iff max_guesses guesses were
\* accepted and the last is not the secret, Playing otherwise; once the game
\* is Won or Lost every further guess returns GameOver and the state stays.
C25_EveryGuessAfterEndIsGameOver ==
    /\ Game_state(game) = StateByGuesses(game)
    /\ [][/\ Game_state(game') = StateByGuesses(game')
          /\ Game_state(game) # Playing =>
                (result' = GameOver /\ Game_state(game') = Game_state(game))]_vars

\* C25 (amended): the state is as claimed; once the game is Won or Lost
\* the state stays, every further guess_word and every further guess with a
\* text that parses returns GameOver, and a guess with a text that does not
\* parse returns InvalidInput.
C25_StateMachine ==
    /\ Game_state(game) = StateByGuesses(game)
    /\ [][/\ Game_state(game') = StateByGuesses(game')
          /\ Game_state(game) # Playing =>
                /\ result' = IF Unparsable(call') THEN InvalidInput ELSE GameOver
                /\ Game_state(game') = Game_state(game)]_vars

\* C25 witness: a game won with its last guess, the max_guesses-th one after
\* a miss, and a further guess that returned GameOver
C25_Witness ==
    /\ op \in {"with_secret", "with_config"}
    /\ Len(game.guesses) = game.config.max_guesses /\ Len(game.guesses) >= 2
    /\ Game_state(game) = Won(game.config.max_guesses)
    /\ game.guesses[1].word # game.secret
    /\ result = GameOver

\* C26: a guess that returns InvalidInput, NotInWordList or GameOver leaves
\* guesses(), guesses_remaining(), current_guess_number() and state() as they
\* were; a guess that returns Accepted appends the returned feedback, and only
\* it, to guesses() and lowers guesses_remaining() by one.
C26_OnlyAcceptedChangesGame ==
    [][IF result'.kind = "Accepted"
       THEN /\ Game_guesses(game') = Append(Game_guesses(game), result'.feedback)
            /\ Game_guesses_remaining(game') = Game_guesses_remaining(game) - 1
            /\ game'.secret = game.secret /\ game'.config = game.config
            /\ game'.word_pool = game.word_pool
       ELSE /\ result'.kind \in {"InvalidInput", "NotInWordList", "GameOver"}
            /\ Game_guesses(game') = Game_guesses(game)
            /\ Game_guesses_remaining(game') = Game_guesses_remaining(game)
            /\ Game_current_guess_number(game') = Game_current_guess_number(game)
            /\ Game_state(game') = Game_state(game)
            /\ game' = game]_vars

\* C26 witness: after an accepted guess, a guess of a word that is not in the
\* list was turned down in a game still going on
C26_Witness ==
    /\ op \in {"with_secret", "with_config"}
    /\ result = NotInWordList
    /\ Len(Game_guesses(game)) = 1 /\ Game_guesses_remaining(game) >= 1
    /\ Game_state(game) = Playing

\* the number of positions of the word w that hold the letter x
Occurrences(w, x) == Cardinality({i \in 1..Len(w) : w[i] = x})

\* the smaller of two numbers
Min(m, n) == IF m <= n THEN m ELSE n

\* C27: in the feedback of evaluate(guess, secret) a position is Correct iff
\* guess and secret agree there; for every letter the positions of the guess
\* that hold it and are marked Correct or WrongPosition are as many as the
\* smaller of its occurrences in guess and in secret; among the occurrences
\* that are not Correct the WrongPosition marks are on the leftmost ones;
\* is_win() holds iff guess = secret.
C27_EvaluateMarks ==
    result.kind = "Feedback" =>
        LET g == call.input
            s == game.secret
            f == result.feedback.feedback
        IN  /\ result.feedback.word = g
            /\ DOMAIN f = 1..WORD_LENGTH
            /\ \A i \in 1..WORD_LENGTH : f[i] \in {"Correct", "WrongPosition", "NotInWord"}
            /\ \A i \in 1..WORD_LENGTH : f[i] = "Correct" <=> g[i] = s[i]
            /\ \A x \in FeedbackLetters :
                  Cardinality({i \in 1..WORD_LENGTH :
                                  g[i] = x /\ f[i] \in {"Correct", "WrongPosition"}})
                    = Min(Occurrences(g, x), Occurrences(s, x))
            /\ \A i, j \in 1..WORD_LENGTH :
                  (i < j /\ g[i] = g[j] /\ f[i] # "Correct" /\ f[j] = "WrongPosition")
                      => f[i] = "WrongPosition"
            /\ GuessFeedback_is_win(result.feedback) <=> g = s

\* C27 witness: a letter three times in the guess and twice in the secret,
\* marked Correct once, WrongPosition at the first of the other two places
\* and NotInWord at the second
C27_Witness ==
    /\ result.kind = "Feedback"
    /\ \E i, j, k \in 1..WORD_LENGTH :
          /\ j < k /\ i # j /\ i # k
          /\ call.input[i] = call.input[j] /\ call.input[j] = call.input[k]
          /\ Occurrences(call.input, call.input[i]) = 3
          /\ Occurrences(game.secret, call.input[i]) = 2
          /\ result.feedback.feedback[i] = "Correct"
          /\ result.feedback.feedback[j] = "WrongPosition"
          /\ result.feedback.feedback[k] = "NotInWord"

\* C28: secret() returns None in every state in which the game is going on
\* (fewer than max_guesses accepted guesses, the last of them not the
\* secret), whatever was guessed, and the secret in every Won or Lost state.
C28_SecretOnlyAfterEnd ==
    op \in {"with_secret", "with_config"} =>
        /\ Game_state(game) = Playing => Game_secret(game) = NoWord
        /\ Game_state(game).kind \in {"Won", "Lost"} => Game_secret(game) = SomeWord(game.secret)
        /\ (~LastIsSecret(game) /\ Len(game.guesses) < game.config.max_guesses)
              => Game_secret(game) = NoWord

\* C28 witness: a game going on after an accepted guess that was not the
\* secret; secret() gives None
C28_Witness ==
    /\ op \in {"with_secret", "with_config"}
    /\ result.kind = "Accepted" /\ ~GuessFeedback_is_win(result.feedback)
    /\ Game_state(game) = Playing
    /\ Game_secret(game) = NoWord

\* the order of the states of a letter on the keyboard
Rank(st) ==
    CASE st = Absent          -> 0
      [] st = "NotInWord"     -> 1
      [] st = "WrongPosition" -> 2
      [] st = "Correct"       -> 3

\* C29: an update call never moves the recorded state of a letter downward
\* in the order absent, NotInWord, WrongPosition, Correct; a letter recorded
\* Correct stays Correct until clear() is called.
C29_KeyboardOnlyUpgrades ==
    [][call'.method # "clear" =>
          \A c \in KeyChars :
              /\ Rank(KeyboardState_get(keyboard', c)) >= Rank(KeyboardState_get(keyboard, c))
              /\ KeyboardState_get(keyboard, c) = "Correct"
                    => KeyboardState_get(keyboard', c) = "Correct"]_vars

\* C29 witness: a letter is recorded Correct after an update whose feedback
\* has it as NotInWord and nowhere as Correct
C29_Witness ==
    /\ op = "keyboard" /\ call.method = "update"
    /\ \E c \in DOMAIN keyboard :
          /\ keyboard[c] = "Correct"
          /\ \E i \in 1..WORD_LENGTH :
                result.feedback.word[i] = c /\ result.feedback.feedback[i] = "NotInWord"
          /\ \A j \in 1..WORD_LENGTH :
                result.feedback.word[j] = c => result.feedback.feedback[j] # "Correct"

\* the records of a CSV content, by the lines it was made of
CsvRecords(lines) == SelectSeq(lines, LAMBDA l : l.n > 0)

\* a record has another number of fields than the first record
Malformed(lines) ==
    \E k \in 1..Len(CsvRecords(lines)) : CsvRecords(lines)[k].n # CsvRecords(lines)[1].n

\* the trimmed first fields of the records, those left out that are empty
\* or all whitespace
RECURSIVE TrimmedFirstFields(_)
TrimmedFirstFields(recs) ==
    IF recs = <<>> THEN <<>>
    ELSE IF \A i \in 1..Len(Head(recs).first) : Head(recs).first[i] \in Whitespace
         THEN TrimmedFirstFields(Tail(recs))
         ELSE <<trim(Head(recs).first)>> \o TrimmedFirstFields(Tail(recs))

\* C30: the CSV source returns InvalidData and no stream if a record is
\* malformed; otherwise it returns a stream that yields Ok items only,
\* non-decreasing under case_fold_cmp, without a not-sorted fault, and at its
\* end has yielded exactly the trimmed first fields of the records whose
\* first field is not empty or all whitespace, each as often as it occurs, a
\* quoted first field with the delimiter in it included.
C30_CsvFirstFieldsSorted ==
    (op \in CsvLoaders /\ status # "loading") =>
        IF Malformed(input)
        THEN status = "err" /\ sink.err = InvalidData /\ out = <<>>
        ELSE /\ status \notin {"err", "panicked"}
             /\ sink.err = None
             /\ OkOnly(out)
             /\ SortedWords(OkWords(out))
             /\ (status = "exhausted" =>
                   SeqToBag(OkWords(out)) = SeqToBag(TrimmedFirstFields(CsvRecords(input))))

\* C30 witness: a content of three records, one with a quoted first field
\* holding the delimiter and one with an all-whitespace first field, read to
\* the end: two words came out, the quoted one among them
C30_Witness ==
    /\ op \in CsvLoaders /\ status = "exhausted"
    /\ Len(input) = 3
    /\ \E k \in 1..3 : input[k].first = <<105, Comma, 73>>
    /\ \E k \in 1..3 : input[k].first = <<32>>
    /\ Len(out) = 2
    /\ \E k \in 1..2 : out[k] = Ok(<<105, Comma, 73>>)

\* the items SortedLines has yielded when it has read the first n lines: the
\* lines that are an Err or not blank
ItemsAmong(lines, n) ==
    Cardinality({i \in 1..n : lines[i].kind = "Err" \/ trim(lines[i].w) # <<>>})

\* the upstream items the WordStream has pulled from its SortedLines so far
UpstreamPulled == ItemsAmong(input, stream.inner.inner.pos)

\* C31 (as claimed): nothing is pulled from the upstream before the first
\* next(), and when k items have been yielded at most k+1 upstream items have
\* been pulled.
C31_LookaheadOfOne ==
    op = "iter" =>
        /\ (status = "running" /\ out = <<>>) => stream.inner.inner.pos = 0
        /\ UpstreamPulled <= Len(out) + 1

\* C31 (amended): nothing is pulled from the upstream before the first
\* next(); when k items have been yielded at most k+1 upstream items have
\* been pulled, unless the last next() ended in the not-sorted fault, which
\* yields nothing and has pulled the two items it compared: k+2 then.
C31_LookaheadOfOneUnlessFault ==
    op = "iter" =>
        /\ (status = "running" /\ out = <<>>) => stream.inner.inner.pos = 0
        /\ status # "panicked" => UpstreamPulled <= Len(out) + 1
        /\ status = "panicked" => UpstreamPulled = Len(out) + 2

\* C31 witness: one item yielded of a source of three, two pulled, the third
\* line not read
C31_Witness ==
    /\ op = "iter" /\ status = "running"
    /\ Len(input) = 3 /\ Len(out) = 1
    /\ UpstreamPulled = 2
    /\ stream.inner.inner.pos = 2

\* no two Ok items of seq that follow each other, the Err items between them
\* left out, have the same lowercase form
NoSameLowerInARow(seq) ==
    \A i \in 1..(Len(OkWords(seq)) - 1) :
        str_to_lowercase(OkWords(seq)[i]) # str_to_lowercase(OkWords(seq)[i + 1])

\* how many items of the input the boxed dedup has taken
DedupTaken(s) == s.inner.inner.inner.inner.pos

\* C32: over any input, sorted or not, with Err items or without, no two Ok
\* items DedupStream emits one after the other (the Err items between them
\* ignored) have the same lowercase form, and every input item a next() takes
\* and does not emit is an Ok item whose lowercase form is that of the Ok
\* item emitted last.
C32_DedupDropsOnlyRepeats ==
    [][op = "dedup" =>
          /\ NoSameLowerInARow(out') /\ NoSameLowerInARow(bout')
          /\ bout' # bout => bout' = Append(bout, input[DedupTaken(bstream')])
          /\ \A j \in (DedupTaken(bstream) + 1)..(DedupTaken(bstream') - 1) \cup
                       (IF bout' = bout THEN {DedupTaken(bstream')} ELSE {}) :
                j > DedupTaken(bstream) =>
                    /\ input[j].kind = "Ok"
                    /\ OkWords(bout) # <<>>
                    /\ str_to_lowercase(input[j].w) =
                          str_to_lowercase(OkWords(bout)[Len(OkWords(bout))])]_vars

\* C32 witness: an input out of order, i-alpha, I, i: the first two came out,
\* the third was dropped as a repeat of the second
C32_Witness ==
    /\ op = "dedup" /\ bstatus = "exhausted"
    /\ input = <<Ok(<<105, 945>>), Ok(<<73>>), Ok(<<105>>)>>
    /\ bout = <<input[1], input[2]>>
    /\ DedupTaken(bstream) = 3

\* the words of the written file, one per line
WrittenWords == SplitLines(sink.file, <<>>)

\* C33 (as claimed): every word the processing of the input files writes has
\* exactly 5 code points, all of them alphabetic and lowercase, and is
\* accepted by Word::parse, also where an input word holds a char whose
\* lowercase form is more than one code point.
C33_WrittenWordsParse ==
    stages = <<"process_output">> =>
        \A i \in 1..Len(WrittenWords) :
            /\ Len(WrittenWords[i]) = WORD_LENGTH
            /\ \A k \in 1..Len(WrittenWords[i]) : is_alphabetic(WrittenWords[i][k])
            /\ str_to_lowercase(WrittenWords[i]) = WrittenWords[i]
            /\ Word_parse(WrittenWords[i]).some

\* C34: in every state of a game there are at most max_guesses recorded
\* guesses, guesses_remaining() is max_guesses less their number, only the
\* last recorded guess can be a win, and every recorded guess is a word of
\* the word pool.
C34_GuessesWithinLimit ==
    op \in {"with_secret", "with_config"} =>
        /\ Len(Game_guesses(game)) <= game.config.max_guesses
        /\ Game_guesses_remaining(game) + Len(Game_guesses(game)) = game.config.max_guesses
        /\ \A i \in 1..Len(Game_guesses(game)) :
              /\ GuessFeedback_is_win(Game_guesses(game)[i]) => i = Len(Game_guesses(game))
              /\ WordPool_contains(game.word_pool, Game_guesses(game)[i].word)

\* C34 witness: a game with all of its guesses used, two or more, the last
\* of them a win, after another guess of a listed word that was turned down
C34_Witness ==
    /\ op \in {"with_secret", "with_config"}
    /\ game.config.max_guesses >= 2
    /\ Len(Game_guesses(game)) = game.config.max_guesses
    /\ GuessFeedback_is_win(Game_guesses(game)[Len(Game_guesses(game))])
    /\ call.method = "guess_word" /\ WordPool_contains(game.word_pool, call.input)
    /\ result = GameOver

\* C35: after any accepted guesses of one game a letter is recorded NotInWord
\* on the keyboard only if it does not occur in the secret, and Correct only
\* if a guess of the game has it at a position where the secret has it.
C35_KeyboardAgreesWithSecret ==
    op = "run" =>
        \A c \in DOMAIN keyboard :
            /\ keyboard[c] = "NotInWord" => Occurrences(game.secret, c) = 0
            /\ keyboard[c] = "Correct" =>
                  \E n \in 1..Len(game.guesses), i \in 1..WORD_LENGTH :
                      game.guesses[n].word[i] = c /\ game.secret[i] = c

\* C35 witness: after two accepted guesses of a game a letter of the secret
\* is recorded Correct that one of the guesses has marked NotInWord at one
\* of its positions
C35_Witness ==
    /\ op = "run" /\ Len(game.guesses) >= 2
    /\ \E c \in DOMAIN keyboard :
          /\ keyboard[c] = "Correct"
          /\ \E n \in 1..Len(game.guesses), i \in 1..WORD_LENGTH :
                game.guesses[n].word[i] = c /\ game.guesses[n].feedback[i] = "NotInWord"

\* C36: the buffer of InputState never holds more than WORD_LENGTH chars or a
\* char that is not alphabetic; a push on a full buffer or of a char that is
\* not alphabetic and a pop on an empty buffer leave it as it is;
\* is_complete() holds iff it holds exactly WORD_LENGTH chars.
C36_InputBuffer ==
    [][op = "input" =>
          /\ Len(app'.input) <= WORD_LENGTH
          /\ \A k \in 1..Len(app'.input) : is_alphabetic(app'.input[k])
          /\ (call'.method = "push" /\
                 (Len(app.input) = WORD_LENGTH \/ ~is_alphabetic(call'.input[1])))
                => app'.input = app.input
          /\ (call'.method = "pop" /\ app.input = <<>>) => app'.input = <<>>
          /\ InputState_is_complete(app'.input) <=> Len(app'.input) = WORD_LENGTH]_vars

\* C36 witness: a full buffer after the push of a letter that is not its
\* last char
C36_Witness ==
    /\ op = "input" /\ call.method = "push"
    /\ InputState_is_complete(app.input)
    /\ is_alphabetic(call.input[1])
    /\ app.input[WORD_LENGTH] # Head(to_lowercase(call.input[1]))

\* the event is the key Enter
IsEnter(event) == event.kind = "Key" /\ event.key.code = "Enter"

\* C37: while the game is Playing, Enter on an incomplete input submits no
\* guess, leaves game, input and keyboard as they are and sets the message
\* 'Not enough letters'; Enter on a complete input that is not in the word
\* list leaves game and input as they are and sets 'Not in word list'; the
\* keyboard changes, and Enter changes the input, only with an accepted
\* guess, which is recorded, clears the input and updates the keyboard.
C37_EnterWhilePlaying ==
    [][(op = "run" /\ Game_state(game) = Playing) =>
          /\ (IsEnter(call'.input) /\ ~InputState_is_complete(app.input)) =>
                /\ result' = NoResult
                /\ game' = game /\ app'.input = app.input /\ keyboard' = keyboard
                /\ app'.message = "Not enough letters"
          /\ (IsEnter(call'.input) /\ InputState_is_complete(app.input)
                 /\ ~WordPool_contains(game.word_pool, Word_parse(app.input).word)) =>
                /\ game' = game /\ app'.input = app.input /\ keyboard' = keyboard
                /\ app'.message = "Not in word list"
          /\ (keyboard' # keyboard \/ (IsEnter(call'.input) /\ app'.input # app.input)) =>
                result'.kind = "Accepted"
          /\ result'.kind = "Accepted" =>
                /\ game'.guesses = Append(game.guesses, result'.feedback)
                /\ app'.input = <<>>
                /\ keyboard' = KeyboardState_update(keyboard, result'.feedback)]_vars

\* C37 witness: after an accepted guess, Enter on a complete input that is
\* not in the word list: the input is still there, with the message
C37_Witness ==
    /\ op = "run" /\ IsEnter(call.input)
    /\ game.guesses # <<>> /\ Game_state(game) = Playing
    /\ InputState_is_complete(app.input)
    /\ result = NotInWordList
    /\ app.message = "Not in word list"

\* C38: no guess submitted by submit_guess returns InvalidInput or GameOver:
\* whenever a guess is submitted the game is Playing and the input holds
\* exactly WORD_LENGTH chars, all alphabetic, which Word::parse accepts.
C38_SubmittedGuessIsValid ==
    [][op = "run" =>
          /\ result'.kind \notin {"InvalidInput", "GameOver"}
          /\ result'.kind # "none" =>
                /\ Game_state(game) = Playing
                /\ Len(app.input) = WORD_LENGTH
                /\ \A k \in 1..Len(app.input) : is_alphabetic(app.input[k])
                /\ Word_parse(app.input).some]_vars

\* C38 witness: the guess just submitted was accepted and used up the last
\* guess of the game without winning it
C38_Witness ==
    /\ op = "run" /\ IsEnter(call.input)
    /\ result.kind = "Accepted"
    /\ Game_state(game) = Lost

====
